---- MODULE Spec2Model ----
(***************************************************************************)
(* Token service and session ledger of asdf (internal/auth).               *)
(*                                                                         *)
(* A request is a process p in Procs.  Each AuthService method is cut at   *)
(* its session-store round trips (SELECT, UPDATE, DELETE, INSERT), where   *)
(* the Go code can be suspended and other requests run: a step is the      *)
(* local computation leading to one round trip, the round trip, and the    *)
(* local computation up to the next one or to the return.  A round trip    *)
(* may fail (connection error): the failure is one outcome of the step.    *)
(*                                                                         *)
(* Time is counted in ticks; Second ticks make one second, the precision   *)
(* to which jwt.NewNumericDate truncates the exp/iat/nbf claims.           *)
(***************************************************************************)
EXTENDS Integers, FiniteSets, Sequences, TLC

\* ---------------------------------------------------------------- bounds
Procs == {"p1", "p2"}

MaxTime == 3

MaxCalls == 3

Second == 2

TokenExpiryHours == 1

\* The freshness window HandleWebFinger gives a cached record (5 minutes in
\* the code), in ticks.
CacheTTL == 2

\* The capacity of a rate limit bucket, in tokens (security.rate_limit_burst).
RateLimitBurst == 2

\* The ticks in which a bucket gains one token (1 / security.rate_limit_rps).
RefillInterval == 2

\* The requests one client sends to the rate limiter.
MaxRequests == 3

\* An hour is scaled down to one second of ticks: what matters to the
\* code is that the lifetime is a whole number of seconds.
Hour == Second

\* server.go:82  tokenExpiry := time.Duration(cfg.Auth.TokenExpiryHours) * time.Hour
tokenExpiry == TokenExpiryHours * Hour

jwtSecret == "server-secret"

\* ---------------------------------------------------------------- values
\* auth.User, restricted to the fields GenerateToken reads.
Users ==
  { [ID |-> 1, Username |-> "alice", Email |-> "alice@example.com", IsAdmin |-> TRUE],
    [ID |-> 2, Username |-> "bob", Email |-> "bob@example.com", IsAdmin |-> FALSE] }

UserIDs == {u.ID : u \in Users}

NoUser == [ID |-> 0, Username |-> "", Email |-> "", IsAdmin |-> FALSE]

\* auth.Claims zero value.
NoClaims ==
  [UserID |-> 0, Username |-> "", Email |-> "", IsAdmin |-> FALSE,
   ExpiresAt |-> 0, IssuedAt |-> 0, NotBefore |-> 0,
   Issuer |-> "", Subject |-> <<"user", 0>>, ID |-> 0]

\* The empty token string.
NoToken == [alg |-> "", claims |-> NoClaims, sig |-> <<"", NoClaims>>]

\* auth.Session zero value.
NoSession ==
  [id |-> 0, user_id |-> 0, token_hash |-> [sha256 |-> NoToken],
   expires_at |-> 0, created_at |-> 0, last_used_at |-> 0]

\* Error values (nil is NoErr).
NoErr == "nil"
ErrParse == "failed to parse token"
ErrSessionNotFound == "session not found"
ErrGetSession == "failed to get session"
ErrSessionExpired == "session expired"
ErrDeleteSession == "failed to delete session"
ErrCreateSession == "failed to create session"
ErrRefresh == "invalid token for refresh"
ErrCacheGet == "failed to get WebFinger record from cache"
ErrUnmarshal == "failed to unmarshal cached WebFinger record"
ErrCacheSet == "failed to set WebFinger record in cache"
ErrNoRows == "no rows in result set"
ErrStore == "store query failed"
ErrCreateUser == "failed to create user"

\* ---------------------------------------------------------------- state
VARIABLES
  now,        \* the clock (time.Now() and the database's NOW())
  sessions,   \* the rows of table sessions
  nextID,     \* the next value uuid.New() returns
  calls,      \* the number of requests started
  proc,       \* per request: position and local variables
  issued,     \* history: credentials handed to a caller
  written,    \* history: token hashes for which a row was inserted
  revoked,    \* history: credentials whose RevokeToken returned nil
  revokedAll, \* history: credentials covered by a RevokeAllUserTokens that returned nil
  http,       \* per request: the HTTP exchange going through the middleware chain
  redis,      \* the Redis keys of the WebFinger records
  stats,      \* the Redis counters stats:hits and stats:misses
  userRows,   \* the rows of table users, by subject
  cfg,        \* how the lookup handler was constructed
  wreq,       \* per request: position and local variables of a cache or lookup call
  lastOp,     \* history: the last cache operation that took effect on a subject
  users,      \* the rows of table users, as the account handlers see them
  api,        \* per request: position and local variables of an account handler
  buckets,    \* the rate limiter's bucket of each client seen so far
  outcomes,   \* history: per client, when each request came and what the limiter did
  lists,      \* the Redis lists of the search results, by query
  sreq        \* per request: the last search cache call and what it returned

vars == <<now, sessions, nextID, calls, proc, issued, written, revoked, revokedAll>>

\* The state of the resource cache and the lookup path.
cacheVars ==
  <<redis, stats, userRows, cfg, wreq, lastOp, users, api, buckets, outcomes, lists, sreq>>

\* ---------------------------------------------------------------- pure functions
\* time.Time.Truncate(jwt.TimePrecision), as jwt.NewNumericDate applies it.
Truncate(t) == t - (t % Second)

\* crypto/hmac over the signing input under a key.
HMAC(key, msg) == <<key, msg>>

\* Mutant of hashToken: only the subject of the credential is hashed.
hashToken_SubjectOnly(token) == [sha256 |-> token.claims.Subject]

\* auth.go:178-182  hashToken: SHA-256 of the whole signed string, hex encoded.
hashToken(token) == [sha256 |-> token]

\* Mutant of NewClaims: the email claim is filled from the username.
NewClaims_EmailFromUsername(user, t, jti) ==
  [UserID |-> user.ID, Username |-> user.Username, Email |-> user.Username,
   IsAdmin |-> user.IsAdmin,
   ExpiresAt |-> Truncate(t + tokenExpiry),
   IssuedAt |-> Truncate(t),
   NotBefore |-> Truncate(t),
   Issuer |-> "asdf-webfinger",
   Subject |-> <<"user", user.ID>>,
   ID |-> jti]

\* auth.go:89-102  the claims GenerateToken builds.
NewClaims(user, t, jti) ==
  [UserID |-> user.ID, Username |-> user.Username, Email |-> user.Email,
   IsAdmin |-> user.IsAdmin,
   ExpiresAt |-> Truncate(t + tokenExpiry),
   IssuedAt |-> Truncate(t),
   NotBefore |-> Truncate(t),
   Issuer |-> "asdf-webfinger",
   Subject |-> <<"user", user.ID>>,
   ID |-> jti]

\* auth.go:104-105  jwt.NewWithClaims(HS256, claims).SignedString(key)
SignedString(claims, key) ==
  [alg |-> "HS256", claims |-> claims, sig |-> HMAC(key, claims)]

\* part_004:22-24 with the table's constraints (types/jrd.go:58-60): the
\* INSERT is refused when the primary key id is taken or user_id names no user.
InsertAllowed(rows, s) ==
  /\ \A r \in rows : r.id # s.id
  /\ s.user_id \in UserIDs

\* auth.go:112-121  the session record of a fresh credential.
NewSession(claims, user, tokenString, t) ==
  [id |-> claims.ID, user_id |-> user.ID, token_hash |-> hashToken(tokenString),
   expires_at |-> t + tokenExpiry, created_at |-> t, last_used_at |-> t]

\* Mutant of IsExpired: the expiry instant itself still counts as live.
IsExpired_Strict(e, t) == e < t

\* The expiry instant e has been reached at time t.  This is the test of
\* the exp claim in jwt's validator (valid iff now.Before(exp)) and of the
\* ledger query (live iff expires_at > NOW()).
IsExpired(e, t) == e <= t

\* time.Time.Before
Before(a, b) == a < b

\* Mutant of ParseWithClaims: the exp claim is not checked.
ParseWithClaims_NoExpiry(tokenString, t) ==
  /\ tokenString.alg = "HS256"
  /\ tokenString.sig = HMAC(jwtSecret, tokenString.claims)

\* auth.go:132-146  jwt.ParseWithClaims with the key function: the method
\* must be HMAC, the signature must verify under jwtSecret, and the
\* registered claims exp and nbf must admit the current time.
ParseWithClaims(tokenString, t) ==
  /\ tokenString.alg = "HS256"
  /\ tokenString.sig = HMAC(jwtSecret, tokenString.claims)
  /\ ~IsExpired(tokenString.claims.ExpiresAt, t)
  /\ ~Before(t, tokenString.claims.NotBefore)

\* Mutant of GetSession: the query does not filter on token_hash.
GetSession_AnyHash(rows, tokenHash, t) ==
  {s \in rows : ~IsExpired(s.expires_at, t)}

\* part_004:46-51  SELECT ... WHERE token_hash = $1 AND expires_at > NOW()
GetSession(rows, tokenHash, t) ==
  {s \in rows : s.token_hash = tokenHash /\ ~IsExpired(s.expires_at, t)}

\* Mutant of TouchSession: the UPDATE also pushes expires_at forward.
TouchSession_SlidingExpiry(rows, tokenHash, t) ==
  {IF s.token_hash = tokenHash
     THEN [s EXCEPT !.last_used_at = t, !.expires_at = t + tokenExpiry]
     ELSE s : s \in rows}

\* part_004:73  UPDATE sessions SET last_used_at = NOW() WHERE token_hash = $1
TouchSession(rows, tokenHash, t) ==
  {IF s.token_hash = tokenHash THEN [s EXCEPT !.last_used_at = t] ELSE s : s \in rows}

\* part_004:81  DELETE FROM sessions WHERE token_hash = $1
DeleteSession(rows, tokenHash) == {s \in rows : s.token_hash # tokenHash}

\* Mutant of DeleteUserSessions: the DELETE has no WHERE clause.
DeleteUserSessions_NoWhere(rows, userID) == {}

\* part_004:97  DELETE FROM sessions WHERE user_id = $1
DeleteUserSessions(rows, userID) == {s \in rows : s.user_id # userID}

\* Mutant of CleanupExpiredSessions: rows about to expire go as well.
CleanupExpiredSessions_Eager(rows, t) == {s \in rows : ~(s.expires_at <= t + 1)}

\* part_004:109  DELETE FROM sessions WHERE expires_at <= NOW()
CleanupExpiredSessions(rows, t) == {s \in rows : ~(s.expires_at <= t)}

\* ---------------------------------------------------------------- resource records
\* A Go slice: nil, or a (possibly empty) sequence of elements.
NilSlice == [isNil |-> TRUE, elems |-> <<>>]

Slice(elems) == [isNil |-> FALSE, elems |-> elems]

\* A Go map[string]interface{}: nil, or a (possibly empty) set of entries
\* [k, kind, v], kind being the dynamic type of the value.
NilMap == [isNil |-> TRUE, kv |-> {}]

MapOf(kv) == [isNil |-> FALSE, kv |-> kv]

\* types.JRD zero value.
NoJRD == [Subject |-> "", Aliases |-> NilSlice, Properties |-> NilMap, Links |-> NilSlice]

\* A *types.JRD: nil or a pointer to a record.
NilPtr == [isNil |-> TRUE, jrd |-> NoJRD]

PtrTo(jrd) == [isNil |-> FALSE, jrd |-> jrd]

\* The subjects looked up.
SubjectA == "acct:a@example.com"

SubjectB == "acct:b@example.com"

Subjects == {SubjectA, SubjectB}

\* The same accounts without the acct: scheme.
BareA == "a@example.com"

BareB == "b@example.com"

\* The values of the resource parameter that occur: absent, the bare scheme,
\* a name without '@', and the accounts with and without the scheme.
Resources == {"", "acct:", "nobody", SubjectA, SubjectB, BareA, BareB}

\* A string that occurs, cut at the scheme and at '@'.
Parts(str) ==
  CASE str = "" -> <<>>
    [] str = "acct:" -> <<"acct:">>
    [] str = "nobody" -> <<"nobody">>
    [] str = SubjectA -> <<"acct:", "a", "@", "example.com">>
    [] str = SubjectB -> <<"acct:", "b", "@", "example.com">>
    [] str = BareA -> <<"a", "@", "example.com">>
    [] str = BareB -> <<"b", "@", "example.com">>
    [] str \in {"alice", "bob", "carol"} -> <<str>>
    [] str = "alice@example.com" -> <<"alice", "@", "example.com">>
    [] str = "bob@example.com" -> <<"bob", "@", "example.com">>
    [] str = "carol@example.com" -> <<"carol", "@", "example.com">>

\* The string made of the parts.
Join(parts) == CHOOSE str \in Resources : Parts(str) = parts

\* strings.TrimPrefix
TrimPrefix(str, prefix) ==
  IF Len(Parts(str)) > 0 /\ Head(Parts(str)) = prefix
    THEN Join(Tail(Parts(str)))
    ELSE str

\* strings.Contains for a one-character substring
Contains(str, ch) == \E i \in DOMAIN Parts(str) : Parts(str)[i] = ch

\* part_009:31-33  IsValidResource
IsValidResource(resource) == Contains(resource, "@")

\* part_009:23-29  GetSubject: <<acct, error>>
GetSubject(resource) ==
  LET acct == TrimPrefix(resource, "acct:")
  IN  IF ~IsValidResource(acct) THEN <<"", "asdf: invalid resource parameter">> ELSE <<acct, NoErr>>

\* part_009:9-21  ParseResource on the resource parameter of the request:
\* <<acct, error>>
ParseResource(resource) ==
  IF resource = "" THEN <<"", "asdf: missing resource parameter">> ELSE GetSubject(resource)

ProfileLink ==
  [Rel |-> "http://webfinger.net/rel/profile-page", Type |-> "text/html",
   Href |-> "http://example.com/profile/a"]

\* A record with every field filled.
PlainJRD(subject) ==
  [Subject |-> subject,
   Aliases |-> Slice(<<"http://example.com/profile/a">>),
   Properties |-> MapOf({[k |-> "http://example.com/prop/name", kind |-> "string", v |-> "A"]}),
   Links |-> Slice(<<ProfileLink>>)]

\* A record whose collections are empty but not nil (aliases '{}',
\* properties '{}', links '[]' in the users row).
EmptyJRD(subject) ==
  [Subject |-> subject, Aliases |-> Slice(<<>>), Properties |-> MapOf({}),
   Links |-> Slice(<<>>)]

\* A record with an integer property value and an empty alias list, as a
\* caller of the cache can build.
IntJRD(subject) ==
  [Subject |-> subject, Aliases |-> Slice(<<>>),
   Properties |-> MapOf({[k |-> "http://example.com/prop/age", kind |-> "int", v |-> "1"]}),
   Links |-> NilSlice]

\* The records a caller passes to SetWebFingerRecord.
Records(subject) == {PlainJRD(subject), IntJRD(subject)}

\* The records LookupBySubject builds from a users row.
StoredRecords(subject) == {PlainJRD(subject), EmptyJRD(subject)}

\* A JSON member of a given name: present with a value, or left out.
Member(present, v, zero) == [present |-> present, v |-> IF present THEN v ELSE zero]

\* Mutant of Marshal: the aliases member is never written.
Marshal_DropsAliases(jrd) ==
  [kind |-> "object",
   subject |-> Member(jrd.Subject # "", jrd.Subject, ""),
   aliases |-> Member(FALSE, <<>>, <<>>),
   properties |-> Member(jrd.Properties.kv # {},
                         {[k |-> e.k, num |-> e.kind \in {"int", "float64"}, v |-> e.v] :
                            e \in jrd.Properties.kv}, {}),
   links |-> Member(Len(jrd.Links.elems) > 0, jrd.Links.elems, <<>>)]

\* json.Marshal of a types.JRD (types/jrd.go:4-9): every field is tagged
\* omitempty, so "" and nil or empty slices and maps are left out; a number
\* is written as a JSON number whatever its Go type.
Marshal(jrd) ==
  [kind |-> "object",
   subject |-> Member(jrd.Subject # "", jrd.Subject, ""),
   aliases |-> Member(Len(jrd.Aliases.elems) > 0, jrd.Aliases.elems, <<>>),
   properties |-> Member(jrd.Properties.kv # {},
                         {[k |-> e.k, num |-> e.kind \in {"int", "float64"}, v |-> e.v] :
                            e \in jrd.Properties.kv}, {}),
   links |-> Member(Len(jrd.Links.elems) > 0, jrd.Links.elems, <<>>)]

\* The JSON document null.
NullDoc ==
  [kind |-> "null", subject |-> Member(FALSE, "", ""), aliases |-> Member(FALSE, <<>>, <<>>),
   properties |-> Member(FALSE, {}, {}), links |-> Member(FALSE, <<>>, <<>>)]

\* json.NewEncoder(w).Encode of a *types.JRD: a nil pointer is written as
\* null.
Encode(ptr) == IF ptr.isNil THEN NullDoc ELSE Marshal(ptr.jrd)

\* A payload that is not JSON.
Garbage ==
  [kind |-> "garbage", subject |-> Member(FALSE, "", ""), aliases |-> Member(FALSE, <<>>, <<>>),
   properties |-> Member(FALSE, {}, {}), links |-> Member(FALSE, <<>>, <<>>)]

\* json.Unmarshal into a zero types.JRD: a member left out leaves the field
\* nil; a JSON number becomes a float64 in a map[string]interface{}; null
\* leaves the record as it is.
Unmarshal(doc) ==
  [err |-> doc.kind \notin {"object", "null"},
   jrd |-> IF doc.kind # "object" THEN NoJRD
           ELSE [Subject |-> doc.subject.v,
                 Aliases |-> IF doc.aliases.present THEN Slice(doc.aliases.v) ELSE NilSlice,
                 Properties |->
                   IF doc.properties.present
                     THEN MapOf({[k |-> e.k, kind |-> IF e.num THEN "float64" ELSE "string",
                                  v |-> e.v] : e \in doc.properties.v})
                     ELSE NilMap,
                 Links |-> IF doc.links.present THEN Slice(doc.links.v) ELSE NilSlice]]

\* redis.go:248-250  webfingerKey; the prefix is set at redis.go:63.
webfingerKey(subject) == <<"asdf:webfinger:", "webfinger:", subject>>

\* A key that holds nothing.
NoEntry == [present |-> FALSE, data |-> Garbage, expireAt |-> 0]

\* expiry 0 in client.Set: the key does not expire.
NoExpiry == 0

\* The key holds a value at time t.
Holds(e, t) == e.present /\ (e.expireAt = NoExpiry \/ t < e.expireAt)

\* A users row, as far as the lookup and the admin writes touch it.
NoRow == [present |-> FALSE, jrd |-> NoJRD, is_active |-> FALSE, writeN |-> 0]

\* How the lookup handler is built: Cache is a connected *RedisCache
\* ("redis"), left unset ("unset"), or the nil *RedisCache that server.go
\* stores in the interface field when the connection failed ("nilptr");
\* Data is the PostgresStore or the MockStore.
Configs ==
  {[cache |-> c, data |-> d] : c \in {"redis", "unset", "nilptr"}, d \in {"postgres", "mock"}}

\* No cache or lookup call in progress.
NoCall ==
  [pc |-> "idle", op |-> "", subject |-> "", arg |-> NoJRD, ret |-> NilPtr, err |-> NoErr,
   cerr |-> NoErr, derr |-> NoErr, serr |-> NoErr,
   found |-> NilPtr, status |-> 0, xcache |-> "", body |-> Garbage, panicked |-> FALSE,
   n |-> 0, pre |-> "", wrote |-> FALSE, queried |-> {}, acct |-> "", ctype |-> ""]

\* No cache operation has taken effect on the subject.
NoOp == [op |-> "", by |-> "", jrd |-> NoJRD, n |-> 0, expireAt |-> 0]

\* ---------------------------------------------------------------- accounts
\* A bcrypt hash; the empty string is no hash of any password.
NoHash == [bcrypt |-> ""]

\* auth.go:70-76  HashPassword
HashPassword(password) == [bcrypt |-> password]

\* auth.go:79-82  VerifyPassword: bcrypt.CompareHashAndPassword returns nil.
VerifyPassword(password, hash) == hash # NoHash /\ hash.bcrypt = password

\* A row of table users (types/jrd.go:27-47), as far as the account
\* handlers read and write it.
UserRow(id, username, email, hash, active) ==
  [id |-> id, username |-> username, email |-> email, password_hash |-> hash,
   is_active |-> active, is_admin |-> FALSE]

\* The accounts that exist at the start: alice, and bob whose account is
\* disabled.
SeedUsers ==
  {UserRow(1, "alice", "alice@example.com", HashPassword("password123"), TRUE),
   UserRow(2, "bob", "bob@example.com", HashPassword("password456"), FALSE)}

\* No account handler call in progress.
NoApi ==
  [pc |-> "idle", op |-> "", username |-> "", email |-> "", password |-> "",
   status |-> 0, message |-> "", token |-> NoToken, user |-> NoUser,
   n |-> 0, created |-> FALSE, taken |-> FALSE, conflict |-> FALSE,
   known |-> FALSE, wrong |-> FALSE, faulted |-> FALSE, expires_at |-> 0,
   inactive |-> FALSE]

\* ---------------------------------------------------------------- requests
\* What held of a credential when the call on it started: the state of its
\* ledger row, and whether a revocation covering it had already returned nil.
NoPre == [row |-> "none", revoked |-> FALSE, revokedAll |-> FALSE, active |-> FALSE]

\* net/http status codes the middleware writes.
StatusOK == 200

StatusBadRequest == 400

StatusNotFound == 404

StatusUnauthorized == 401

StatusForbidden == 403

StatusCreated == 201

StatusConflict == 409

StatusInternalServerError == 500

\* Content types: the one of a record and the one http.Error writes.
ContentTypeJRD == "application/jrd+json"

ContentTypeText == "text/plain; charset=utf-8"

\* An empty request context (no value stored under any key).
EmptyCtx == [k \in {} |-> NoClaims]

\* No Authorization header.
NoHeader == [scheme |-> "", credentials |-> NoToken]

\* No HTTP exchange in progress.
NoExchange ==
  [at |-> "idle", chain |-> <<>>, route |-> "", header |-> NoHeader,
   ctx |-> EmptyCtx, status |-> 0, invoked |-> FALSE, live |-> FALSE,
   expires_at |-> 0]

\* A request that has made no call: every local variable at its zero value.
Idle ==
  [pc |-> "idle", op |-> "", tok |-> NoToken, user |-> NoUser,
   claims |-> NoClaims, session |-> NoSession, rows |-> 0,
   revErr |-> NoErr, createErr |-> NoErr,
   err |-> NoErr, cause |-> NoErr, ret |-> NoToken, retClaims |-> NoClaims,
   pre |-> NoPre, n |-> 0]

\* A credential signed by a party that does not hold jwtSecret; it claims
\* the administrator's identity and does not expire within the run.
ForgedToken ==
  SignedString([NewClaims(CHOOSE u \in Users : u.IsAdmin, 0, 0)
                  EXCEPT !.ExpiresAt = Truncate(MaxTime + 2 * Second)],
               "attacker-secret")

\* The credential strings handed to callers so far.
IssuedTokens == {i.tok : i \in issued}

\* The credential strings a caller can present.
Presentable == IssuedTokens \cup {ForgedToken}

\* What the ledger says about a credential.
RowState(tokenString) ==
  LET mine == {s \in sessions : s.token_hash = hashToken(tokenString)}
  IN  IF mine = {} THEN "none"
      ELSE IF \E s \in mine : s.expires_at > now THEN "live" ELSE "expired"

Pre(tokenString) ==
  [row |-> RowState(tokenString),
   revoked |-> tokenString \in revoked,
   revokedAll |-> tokenString \in revokedAll,
   active |-> \E u \in users : u.id = tokenString.claims.UserID /\ u.is_active]

\* ---------------------------------------------------------------- search results
\* The search queries whose results are cached.
Queries == {"alice", "bob"}

\* A Redis list key that does not exist.  results and n are history: the
\* results the last SetSearchResults was given, and the ordinal of that call.
NoList == [present |-> FALSE, elems |-> <<>>, expireAt |-> 0, results |-> <<>>, n |-> 0]

\* No search cache call made.
NoSearch == [op |-> "", query |-> "", ret |-> NilSlice, err |-> NoErr, n |-> 0]

\* LPUSH key args...: each argument in turn is inserted at the head of the
\* list, so the last argument ends up first.
RECURSIVE LPush(_, _)
LPush(list, args) ==
  IF args = <<>> THEN list ELSE LPush(<<Head(args)>> \o list, Tail(args))

\* ---------------------------------------------------------------- rate limiter
\* The addresses requests come from.
Clients == {"10.0.0.1", "10.0.0.2"}

\* net/http StatusTooManyRequests, the throttling signal.
StatusTooManyRequests == 429

\* tokens_remaining is counted in RefillInterval-ths of a token, so that the
\* steady refill of one token per RefillInterval is one unit per tick.
OneToken == RefillInterval

\* The burst capacity of a bucket.
Capacity == RateLimitBurst * OneToken

\* The bucket of a client seen for the first time at t: full.
NewBucket(t) == [tokens_remaining |-> Capacity, last_refill_time |-> t]

\* The refill at the steady rate since last_refill_time, up to the burst
\* capacity.
Refill(b, t) ==
  LET refilled == b.tokens_remaining + (t - b.last_refill_time)
  IN  [tokens_remaining |-> IF refilled > Capacity THEN Capacity ELSE refilled,
       last_refill_time |-> t]

\* Mutant of Allow: a fraction of a token lets a request pass.
Allow_Partial(b) == b.tokens_remaining > 0

\* A request consumes one token if available.
Allow(b) == b.tokens_remaining >= OneToken

Take(b) == [b EXCEPT !.tokens_remaining = @ - OneToken]

InitAuth ==
  /\ now = 0
  /\ sessions = {}
  /\ nextID = 1
  /\ calls = 0
  /\ proc = [p \in Procs |-> Idle]
  /\ issued = {}
  /\ written = {}
  /\ revoked = {}
  /\ revokedAll = {}
  /\ http = [p \in Procs |-> NoExchange]
  /\ users = SeedUsers
  /\ api = [p \in Procs |-> NoApi]
  /\ buckets = [c \in {} |-> NewBucket(0)]
  /\ outcomes = [c \in Clients |-> <<>>]
  /\ lists = [q \in Queries |-> NoList]
  /\ sreq = [p \in Procs |-> NoSearch]

\* The cache and lookup path before any call: an empty cache, subject A
\* present in table users and subject B absent.
InitLookup ==
  /\ redis = [k \in {webfingerKey(s) : s \in Subjects} |-> NoEntry]
  /\ stats = [hits |-> 0, misses |-> 0]
  /\ \E r \in StoredRecords(SubjectA) :
       userRows = [s \in Subjects |->
                    IF s = SubjectA
                      THEN [present |-> TRUE, jrd |-> r, is_active |-> TRUE, writeN |-> 0]
                      ELSE NoRow]
  /\ cfg \in Configs
  /\ wreq = [p \in Procs |-> NoCall]
  /\ lastOp = [s \in Subjects |-> NoOp]

\* The token service is exercised with one construction of the lookup path.
Init ==
  /\ InitAuth
  /\ InitLookup
  /\ cfg = [cache |-> "redis", data |-> "postgres"]
  /\ userRows[SubjectA].jrd = PlainJRD(SubjectA)

\* Request p is not in a call: it has made none yet, or its last call has
\* returned (the record keeps that call's arguments and results).
Ready(p) == proc[p].pc \in {"idle", "done"}

\* A request starts.
Begin ==
  /\ calls < MaxCalls
  /\ calls' = calls + 1

\* The clock advances.
Tick ==
  /\ now < MaxTime
  /\ now' = now + 1
  /\ UNCHANGED <<sessions, nextID, calls, proc, issued, written, revoked, revokedAll>>

\* auth.go:131-160  what ValidateToken returns for a credential when it runs
\* against ledger rows at time t with no other request in between and no
\* store failure.
ValidateOutcome(rows, t, tokenString) ==
  IF ~ParseWithClaims(tokenString, t) THEN ErrParse
  ELSE LET found == GetSession(rows, hashToken(tokenString), t)
       IN  IF found = {} THEN ErrSessionNotFound
           ELSE IF \A s \in found : Before(s.expires_at, t) THEN ErrSessionExpired
           ELSE NoErr

\* ---------------------------------------------------------------- GenerateToken
\* Mutant of GenerateReturn: the error of CreateSession is dropped.
GenerateReturn_IgnoresError(tokenString, createErr) ==
  [ret |-> tokenString, err |-> NoErr]

\* auth.go:123-127  what GenerateToken returns after CreateSession.
GenerateReturn(tokenString, createErr) ==
  IF createErr # NoErr
    THEN [ret |-> NoToken, err |-> ErrCreateSession]
    ELSE [ret |-> tokenString, err |-> NoErr]

\* auth.go:85-128 and part_004:21-42  read the clock, build and sign the
\* claims, INSERT the session, return.
Issue(p, opname, user, base) ==
  /\ nextID' = nextID + 1
  /\ \E fault \in BOOLEAN :
       LET claims == NewClaims(user, now, nextID)
           tokenString == SignedString(claims, jwtSecret)
           s == NewSession(claims, user, tokenString, now)
           createErr == IF fault \/ ~InsertAllowed(sessions, s)
                          THEN ErrCreateSession ELSE NoErr
           r == GenerateReturn(tokenString, createErr)
       IN  /\ sessions' = IF createErr = NoErr THEN sessions \cup {s} ELSE sessions
           /\ written' = IF createErr = NoErr THEN written \cup {s.token_hash} ELSE written
           /\ issued' = IF r.ret # NoToken
                          THEN issued \cup {[tok |-> r.ret, user |-> user]} ELSE issued
           /\ proc' = [proc EXCEPT ![p] =
                        [base EXCEPT !.pc = "done", !.op = opname, !.user = user,
                                     !.createErr = createErr,
                                     !.ret = r.ret, !.err = r.err]]
  /\ UNCHANGED <<now, revoked, revokedAll>>

GenerateToken(p, user) ==
  /\ Ready(p)
  /\ Begin
  /\ Issue(p, "GenerateToken", user, [Idle EXCEPT !.n = calls + 1])

\* ---------------------------------------------------------------- ValidateToken
\* How a failed ValidateToken leaves the request: ValidateToken returns the
\* error; RefreshToken wraps it (auth.go:187-190).
Fail(r, e, c) ==
  IF r.op = "RefreshToken"
    THEN [r EXCEPT !.pc = "done", !.err = ErrRefresh, !.cause = e,
                   !.claims = NoClaims, !.session = NoSession]
    ELSE [r EXCEPT !.pc = "done", !.err = e, !.cause = c,
                   !.claims = NoClaims, !.session = NoSession]

\* auth.go:132-153 and part_004:45-70  parse and verify the credential,
\* then SELECT its session, as the n-th call.
LookupStep(p, opname, tokenString, n) ==
  LET r == [Idle EXCEPT !.op = opname, !.tok = tokenString,
                        !.pre = Pre(tokenString), !.n = n]
      found == GetSession(sessions, hashToken(tokenString), now)
  IN  /\ Ready(p)
      /\ IF ~ParseWithClaims(tokenString, now)
           THEN proc' = [proc EXCEPT ![p] = Fail(r, ErrParse, NoErr)]
           ELSE \/ /\ found = {}
                   /\ proc' = [proc EXCEPT ![p] =
                                Fail(r, ErrSessionNotFound, ErrSessionNotFound)]
                \/ proc' = [proc EXCEPT ![p] = Fail(r, ErrSessionNotFound, ErrGetSession)]
                \/ \E s \in found :
                     proc' = [proc EXCEPT ![p] =
                               [r EXCEPT !.pc = "vt_update",
                                         !.claims = tokenString.claims, !.session = s]]
      /\ UNCHANGED <<now, sessions, nextID, issued, written, revoked, revokedAll>>

\* The lookup as the first step of a call.
Lookup(p, opname, tokenString) ==
  /\ Begin
  /\ LookupStep(p, opname, tokenString, calls + 1)

\* Mutant of ClaimsUser: the rebuilt user is an administrator.
ClaimsUser_Admin(claims) ==
  [ID |-> claims.UserID, Username |-> claims.Username,
   Email |-> claims.Email, IsAdmin |-> TRUE]

\* auth.go:192-198  the User RefreshToken builds from the old claims.
ClaimsUser(claims) ==
  [ID |-> claims.UserID, Username |-> claims.Username,
   Email |-> claims.Email, IsAdmin |-> claims.IsAdmin]

\* part_004:72-76  the UPDATE of last_used_at, whose error is dropped;
\* auth.go:155-159  the expiry check on the fetched row, and the return;
\* auth.go:192-198  RefreshToken goes on with a User built from the claims.
VtFinish(p) ==
  /\ proc[p].pc = "vt_update"
  /\ \E fault \in BOOLEAN :
       sessions' = IF fault THEN sessions
                   ELSE TouchSession(sessions, hashToken(proc[p].tok), now)
  /\ proc' = [proc EXCEPT ![p] =
       IF Before(proc[p].session.expires_at, now)
         THEN Fail(proc[p], ErrSessionExpired, NoErr)
         ELSE IF proc[p].op = "RefreshToken"
           THEN [proc[p] EXCEPT !.pc = "rf_revoke",
                   !.session = NoSession,
                   !.user = ClaimsUser(proc[p].claims)]
           ELSE [proc[p] EXCEPT !.pc = "done", !.retClaims = proc[p].claims,
                                !.claims = NoClaims, !.session = NoSession]]
  /\ UNCHANGED <<now, calls, nextID, issued, written, revoked, revokedAll>>

\* ---------------------------------------------------------------- RevokeToken
\* Mutant of DeleteSessionErr: a DELETE that affected no row reports nil.
DeleteSessionErr_NeverNotFound(rowsAffected) == NoErr

\* part_004:88-92  the error DeleteSession derives from RowsAffected.
DeleteSessionErr(rowsAffected) ==
  IF rowsAffected = 0 THEN "delete: session not found" ELSE NoErr

\* Mutant of RevokeStep: a failed DELETE is reported as nil.
RevokeStep_SwallowsFailure(tokenString, fault) ==
  LET after == DeleteSession(sessions, hashToken(tokenString))
      n == Cardinality(sessions) - Cardinality(after)
  IN  IF fault THEN <<sessions, 0, NoErr>>
      ELSE <<after, n, DeleteSessionErr(n)>>

\* auth.go:163-166 and part_004:80-93  the DELETE by token hash:
\* <<rows after, rows affected, error>>.
RevokeStep(tokenString, fault) ==
  LET after == DeleteSession(sessions, hashToken(tokenString))
      n == Cardinality(sessions) - Cardinality(after)
  IN  IF fault THEN <<sessions, 0, ErrDeleteSession>>
      ELSE <<after, n, DeleteSessionErr(n)>>

RevokeToken(p, tokenString) ==
  /\ Ready(p)
  /\ Begin
  /\ \E fault \in BOOLEAN :
       LET r == RevokeStep(tokenString, fault)
       IN  /\ sessions' = r[1]
           /\ revoked' = IF r[3] = NoErr THEN revoked \cup {tokenString} ELSE revoked
           /\ proc' = [proc EXCEPT ![p] =
                        [Idle EXCEPT !.pc = "done", !.op = "RevokeToken",
                                     !.tok = tokenString, !.n = calls + 1,
                                     !.pre = Pre(tokenString),
                                     !.rows = r[2], !.err = r[3]]]
  /\ UNCHANGED <<now, nextID, issued, written, revokedAll>>

\* ---------------------------------------------------------------- RevokeAllUserTokens
\* auth.go:169-171 and part_004:96-105
RevokeAllUserTokens(p, userID) ==
  /\ Ready(p)
  /\ Begin
  /\ \E fault \in BOOLEAN :
       /\ sessions' = IF fault THEN sessions ELSE DeleteUserSessions(sessions, userID)
       /\ revokedAll' = IF fault THEN revokedAll
                        ELSE revokedAll \cup {i.tok : i \in {j \in issued : j.user.ID = userID}}
       /\ proc' = [proc EXCEPT ![p] =
                    [Idle EXCEPT !.pc = "done", !.op = "RevokeAllUserTokens", !.n = calls + 1,
                                 !.user = [NoUser EXCEPT !.ID = userID],
                                 !.err = IF fault THEN "failed to delete user sessions" ELSE NoErr]]
  /\ UNCHANGED <<now, nextID, issued, written, revoked>>

\* ---------------------------------------------------------------- CleanupExpiredSessions
\* auth.go:174-176 and part_004:108-120
CleanupExpired(p) ==
  /\ Ready(p)
  /\ Begin
  /\ \E fault \in BOOLEAN :
       /\ sessions' = IF fault THEN sessions ELSE CleanupExpiredSessions(sessions, now)
       /\ proc' = [proc EXCEPT ![p] =
                    [Idle EXCEPT !.pc = "done", !.op = "CleanupExpiredSessions", !.n = calls + 1,
                                 !.err = IF fault THEN "failed to cleanup expired sessions" ELSE NoErr]]
  /\ UNCHANGED <<now, nextID, issued, written, revoked, revokedAll>>

\* ---------------------------------------------------------------- RefreshToken
\* auth.go:187-190  RefreshToken starts by validating the old credential:
\* Lookup(p, "RefreshToken", tokenString).

\* Mutant of RefreshContinues: a revocation error aborts the refresh.
RefreshContinues_OnlyOnSuccess(e) == e = NoErr

\* auth.go:201-204  whether RefreshToken goes on after RevokeToken returned e.
RefreshContinues(e) == TRUE

\* Mutant of RfRevoke: RefreshToken does not revoke the old credential.
RfRevoke_Skipped(p) ==
  /\ proc[p].pc = "rf_revoke"
  /\ proc' = [proc EXCEPT ![p].pc = "rf_issue"]
  /\ UNCHANGED <<now, calls, sessions, nextID, issued, written, revoked, revokedAll>>

\* auth.go:200-204  revoke the old credential.
RfRevoke(p) ==
  /\ proc[p].pc = "rf_revoke"
  /\ \E fault \in BOOLEAN :
       LET r == RevokeStep(proc[p].tok, fault)
       IN  /\ sessions' = r[1]
           /\ revoked' = IF r[3] = NoErr THEN revoked \cup {proc[p].tok} ELSE revoked
           /\ proc' = [proc EXCEPT ![p] =
                        IF RefreshContinues(r[3])
                          THEN [proc[p] EXCEPT !.pc = "rf_issue", !.rows = r[2], !.revErr = r[3]]
                          ELSE [proc[p] EXCEPT !.pc = "done", !.rows = r[2],
                                               !.revErr = r[3], !.err = r[3]]]
  /\ UNCHANGED <<now, calls, nextID, issued, written, revokedAll>>

\* auth.go:206-207  GenerateToken for the user of the old claims.
RfIssue(p) ==
  /\ proc[p].pc = "rf_issue"
  /\ UNCHANGED calls
  /\ Issue(p, "RefreshToken", proc[p].user, [proc[p] EXCEPT !.claims = NoClaims])

\* The token service on its own: no HTTP exchange takes place.
Next ==
  \/ Tick /\ UNCHANGED <<http, cacheVars>>
  \/ \E p \in Procs, u \in Users : GenerateToken(p, u) /\ UNCHANGED <<http, cacheVars>>
  \/ \E p \in Procs, t \in Presentable : Lookup(p, "ValidateToken", t) /\ UNCHANGED <<http, cacheVars>>
  \/ \E p \in Procs : VtFinish(p) /\ UNCHANGED <<http, cacheVars>>
  \/ \E p \in Procs, t \in Presentable : RevokeToken(p, t) /\ UNCHANGED <<http, cacheVars>>
  \/ \E p \in Procs, u \in UserIDs : RevokeAllUserTokens(p, u) /\ UNCHANGED <<http, cacheVars>>
  \/ \E p \in Procs : CleanupExpired(p) /\ UNCHANGED <<http, cacheVars>>
  \/ \E p \in Procs, t \in Presentable : Lookup(p, "RefreshToken", t) /\ UNCHANGED <<http, cacheVars>>
  \/ \E p \in Procs : RfRevoke(p) /\ UNCHANGED <<http, cacheVars>>
  \/ \E p \in Procs : RfIssue(p) /\ UNCHANGED <<http, cacheVars>>

Spec == Init /\ [][Next]_vars

\* ---------------------------------------------------------------- HTTP middleware
\* strings.ToLower on the authorization schemes that occur.
ToLower(str) == IF str = "Bearer" THEN "bearer" ELSE str

\* The Authorization headers a client sends: none, a bearer credential, or
\* a credential under another scheme.
Headers ==
  {NoHeader} \cup
  {[scheme |-> sc, credentials |-> t] : sc \in {"Bearer", "Basic"}, t \in Presentable}

\* auth_handler.go:329-342  extractToken: "" unless the header is
\* "Bearer <token>" (scheme compared case-insensitively).
extractToken(header) ==
  IF header = NoHeader THEN NoToken
  ELSE IF ToLower(header.scheme) # "bearer" THEN NoToken
  ELSE header.credentials

\* An admin route as RegisterRoutes mounts it.
AdminRoute == "/api/admin/stats"

\* The handler AuthMiddleware(h) that the admin chain wraps, served directly.
AuthOnlyRoute == "AuthMiddleware(h)"

\* Paths of the server.
ProfileRoute == "/api/profile"

LogoutRoute == "/api/auth/logout"

RefreshRoute == "/api/auth/refresh"

\* server.go:94-122  the patterns registered on mux, the router the server
\* serves, each with its handler.  /api/profile and /api/search are
\* registered on protectedMux (server.go:112-114), which is neither mounted
\* on mux nor wrapped in AuthMiddleware.
Mux ==
  [pattern \in {"/health", "/metrics", "/static/", "/api/auth/login",
                "/api/auth/register", LogoutRoute, RefreshRoute,
                "/.well-known/webfinger", "/"} |->
     CASE pattern = "/health" -> "HealthCheckHandler"
       [] pattern = "/metrics" -> "metrics.Handler"
       [] pattern = "/static/" -> "FileServer"
       [] pattern = "/api/auth/login" -> "HandleLogin"
       [] pattern = "/api/auth/register" -> "HandleRegister"
       [] pattern = LogoutRoute -> "HandleLogout"
       [] pattern = RefreshRoute -> "HandleRefreshToken"
       [] pattern = "/.well-known/webfinger" -> "HandleWebFinger"
       [] pattern = "/" -> "HTMLHandler"]

\* http.ServeMux on mux: the handler of the exact pattern, or else the one
\* of the subtree pattern "/" (no path of the model lies under "/static/").
Router(path) == IF path \in DOMAIN Mux THEN Mux[path] ELSE Mux["/"]

\* admin_handler.go:50-52  the handlers a request goes through, outermost
\* first: adminHandler(h) is RequireAdmin(AuthMiddleware(h)), so the handler
\* RequireAdmin returns receives the request and AuthMiddleware is its next.
\* A path of the server goes to the handler the router finds.
Chain(route) ==
  IF route = AdminRoute
    THEN <<"RequireAdmin", "AuthMiddleware", "handler">>
  ELSE IF route \in {ProfileRoute, LogoutRoute, RefreshRoute}
    THEN <<Router(route)>>
  ELSE <<"AuthMiddleware", "handler">>

\* next.ServeHTTP(w, r)
ServeNext(x) == [x EXCEPT !.chain = Tail(x.chain), !.at = Head(Tail(x.chain))]

\* writeError(w, code, ...) and return.
WriteError(x, code) == [x EXCEPT !.at = "responded", !.chain = <<>>, !.status = code]

\* Request p is not inside an HTTP exchange.
Direct(p) == http[p].at \in {"idle", "responded"}

\* A client sends a request.  live records whether ValidateToken would accept
\* the bearer credential of the request at this moment.
HttpRequest(p, route, header) ==
  /\ Direct(p)
  /\ Ready(p)
  /\ Begin
  /\ http' = [http EXCEPT ![p] =
       [at |-> Head(Chain(route)), chain |-> Chain(route), route |-> route,
        header |-> header, ctx |-> EmptyCtx, status |-> 0, invoked |-> FALSE,
        live |-> ValidateOutcome(sessions, now, extractToken(header)) = NoErr,
        expires_at |-> 0]]
  /\ UNCHANGED <<now, sessions, nextID, proc, issued, written, revoked, revokedAll>>

\* auth_handler.go:311-326  RequireAdmin
RequireAdmin(p) ==
  /\ http[p].at = "RequireAdmin"
  /\ http' = [http EXCEPT ![p] =
       IF "user" \notin DOMAIN http[p].ctx
         THEN WriteError(http[p], StatusUnauthorized)
         ELSE IF ~http[p].ctx["user"].IsAdmin
           THEN WriteError(http[p], StatusForbidden)
           ELSE ServeNext(http[p])]
  /\ UNCHANGED vars

\* auth_handler.go:288-296  AuthMiddleware up to the call of ValidateToken.
AuthMiddleware(p) ==
  /\ http[p].at = "AuthMiddleware"
  /\ LET token == extractToken(http[p].header)
     IN  IF token = NoToken
           THEN /\ http' = [http EXCEPT ![p] = WriteError(http[p], StatusUnauthorized)]
                /\ UNCHANGED vars
           ELSE /\ Lookup(p, "ValidateToken", token)
                /\ http' = [http EXCEPT ![p].at = "AuthMiddleware.ValidateToken"]

\* auth_handler.go:296-306  AuthMiddleware after ValidateToken returned.
AuthMiddlewareReturn(p) ==
  /\ http[p].at = "AuthMiddleware.ValidateToken"
  /\ proc[p].pc = "done"
  /\ http' = [http EXCEPT ![p] =
       IF proc[p].err # NoErr
         THEN WriteError(http[p], StatusUnauthorized)
         ELSE ServeNext([http[p] EXCEPT !.ctx = [k \in {"user"} |-> proc[p].retClaims]])]
  /\ UNCHANGED vars

\* admin_handler.go:54-57  the route's handler runs and answers.
Handle(p) ==
  /\ http[p].at = "handler"
  /\ http' = [http EXCEPT ![p] =
       [http[p] EXCEPT !.at = "responded", !.chain = <<>>,
                       !.status = StatusOK, !.invoked = TRUE]]
  /\ UNCHANGED vars

\* The token service behind the HTTP middleware.
NextHttp ==
  \/ Tick /\ UNCHANGED <<http, cacheVars>>
  \/ \E p \in Procs, u \in Users : Direct(p) /\ GenerateToken(p, u) /\ UNCHANGED <<http, cacheVars>>
  \/ \E p \in Procs, t \in Presentable : Direct(p) /\ RevokeToken(p, t) /\ UNCHANGED <<http, cacheVars>>
  \/ \E p \in Procs, r \in {AdminRoute, AuthOnlyRoute}, h \in Headers : HttpRequest(p, r, h) /\ UNCHANGED cacheVars
  \/ \E p \in Procs : RequireAdmin(p) /\ UNCHANGED cacheVars
  \/ \E p \in Procs : AuthMiddleware(p) /\ UNCHANGED cacheVars
  \/ \E p \in Procs : VtFinish(p) /\ UNCHANGED <<http, cacheVars>>
  \/ \E p \in Procs : AuthMiddlewareReturn(p) /\ UNCHANGED cacheVars
  \/ \E p \in Procs : Handle(p) /\ UNCHANGED cacheVars

SpecHttp == Init /\ [][NextHttp]_<<vars, http>>

\* ---------------------------------------------------------------- session endpoints
\* html_handler.go:113-133  HTMLHandler.ServeHTTP on a GET: the search form.
HtmlIndex(p) ==
  /\ http[p].at = "HTMLHandler"
  /\ http' = [http EXCEPT ![p] =
       [http[p] EXCEPT !.at = "responded", !.chain = <<>>, !.status = StatusOK]]
  /\ UNCHANGED vars

\* Mutant of LogoutStatus: a failed revocation fails the logout.
LogoutStatus_FailsOnError(e) == IF e # NoErr THEN StatusInternalServerError ELSE StatusOK

\* auth_handler.go:211-220  the status of a logout whose RevokeToken
\* returned e.
LogoutStatus(e) == StatusOK

\* auth_handler.go:198-221  HandleLogout
HandleLogout(p) ==
  /\ http[p].at = "HandleLogout"
  /\ LET token == extractToken(http[p].header)
     IN  IF token = NoToken
           THEN /\ http' = [http EXCEPT ![p] = WriteError(http[p], StatusBadRequest)]
                /\ UNCHANGED vars
           ELSE \E fault \in BOOLEAN :
                  LET r == RevokeStep(token, fault)
                  IN  /\ sessions' = r[1]
                      /\ revoked' = IF r[3] = NoErr THEN revoked \cup {token} ELSE revoked
                      /\ proc' = [proc EXCEPT ![p] =
                           [Idle EXCEPT !.pc = "done", !.op = "RevokeToken", !.tok = token,
                                        !.n = calls, !.pre = Pre(token),
                                        !.rows = r[2], !.err = r[3]]]
                      /\ http' = [http EXCEPT ![p] =
                           [http[p] EXCEPT !.at = "responded", !.chain = <<>>,
                                           !.status = LogoutStatus(r[3]), !.invoked = TRUE]]
                      /\ UNCHANGED <<now, calls, nextID, issued, written, revokedAll>>

\* auth_handler.go:224-241  HandleRefreshToken up to the call of
\* RefreshToken.
HandleRefreshToken(p) ==
  /\ http[p].at = "HandleRefreshToken"
  /\ LET token == extractToken(http[p].header)
     IN  IF token = NoToken
           THEN /\ http' = [http EXCEPT ![p] = WriteError(http[p], StatusBadRequest)]
                /\ UNCHANGED vars
           ELSE /\ LookupStep(p, "RefreshToken", token, calls)
                /\ UNCHANGED calls
                /\ http' = [http EXCEPT ![p].at = "HandleRefreshToken.RefreshToken",
                                         ![p].invoked = TRUE]

\* Mutant of RefreshStatus: the error of RefreshToken is not looked at.
RefreshStatus_IgnoresError(e) == StatusOK

\* auth_handler.go:102 and 244  the expires_at of the login and refresh
\* answers: time.Now().Add(24 * time.Hour), read when the answer is built.
ResponseExpiry(t) == t + 24 * Hour

\* auth_handler.go:241-256  the status of a refresh whose RefreshToken
\* returned e.
RefreshStatus(e) == IF e # NoErr THEN StatusUnauthorized ELSE StatusOK

\* auth_handler.go:241-257  HandleRefreshToken after RefreshToken returned.
HandleRefreshReturn(p) ==
  /\ http[p].at = "HandleRefreshToken.RefreshToken"
  /\ proc[p].pc = "done"
  /\ http' = [http EXCEPT ![p] =
       [http[p] EXCEPT !.at = "responded", !.chain = <<>>,
                       !.status = RefreshStatus(proc[p].err),
                       !.expires_at = IF proc[p].err = NoErr
                                        THEN ResponseExpiry(now) ELSE 0]]
  /\ UNCHANGED vars

\* The session endpoints of the server and GET /api/profile, with
\* credentials handed out by GenerateToken.
NextSession ==
  \/ Tick /\ UNCHANGED <<http, cacheVars>>
  \/ \E p \in Procs, u \in Users : Direct(p) /\ GenerateToken(p, u) /\ UNCHANGED <<http, cacheVars>>
  \/ \E p \in Procs, r \in {ProfileRoute, LogoutRoute, RefreshRoute}, h \in Headers :
       HttpRequest(p, r, h) /\ UNCHANGED cacheVars
  \/ \E p \in Procs : HtmlIndex(p) /\ UNCHANGED cacheVars
  \/ \E p \in Procs : HandleLogout(p) /\ UNCHANGED cacheVars
  \/ \E p \in Procs : HandleRefreshToken(p) /\ UNCHANGED cacheVars
  \/ \E p \in Procs : VtFinish(p) /\ UNCHANGED <<http, cacheVars>>
  \/ \E p \in Procs : RfRevoke(p) /\ UNCHANGED <<http, cacheVars>>
  \/ \E p \in Procs : RfIssue(p) /\ UNCHANGED <<http, cacheVars>>
  \/ \E p \in Procs : HandleRefreshReturn(p) /\ UNCHANGED cacheVars

SpecSession == Init /\ [][NextSession]_<<vars, http>>

\* ---------------------------------------------------------------- search cache
\* What a search cache call leaves alone, but for the call counter, the
\* counters, the lists and its own request.
searchRest ==
  <<now, sessions, nextID, proc, issued, written, revoked, revokedAll, http, users, api,
    buckets, outcomes, redis, userRows, cfg, wreq, lastOp>>

\* redis.go:141-168  SetSearchResults: DEL key, LPUSH the results (or the
\* marker "__EMPTY__" for none), EXPIRE key, sent as one pipeline whose
\* commands run in order.
SetSearchResults(p, query, results, expiry) ==
  /\ Begin
  /\ \E fault \in BOOLEAN :
       /\ lists' = IF fault THEN lists
                   ELSE [lists EXCEPT ![query] =
                          [present |-> TRUE,
                           elems |-> IF Len(results) > 0 THEN LPush(<<>>, results)
                                     ELSE LPush(<<>>, <<"__EMPTY__">>),
                           expireAt |-> now + expiry,
                           results |-> results, n |-> calls + 1]]
       /\ sreq' = [sreq EXCEPT ![p] =
            [op |-> "SetSearchResults", query |-> query, ret |-> NilSlice,
             err |-> IF fault THEN "failed to set search results in cache" ELSE NoErr,
             n |-> calls + 1]]
  /\ UNCHANGED <<searchRest, stats>>

\* redis.go:119-138  GetSearchResults: LRANGE key 0 -1; an absent or
\* expired key gives no elements and (nil, nil); any other list is
\* returned as it is and counted as a hit.
GetSearchResults(p, query) ==
  /\ Begin
  /\ \E fault \in BOOLEAN :
       LET held == lists[query].present /\ now < lists[query].expireAt
           results == IF held THEN lists[query].elems ELSE <<>>
           r == [op |-> "GetSearchResults", query |-> query, ret |-> NilSlice,
                 err |-> NoErr, n |-> calls + 1]
       IN  IF fault
             THEN /\ sreq' = [sreq EXCEPT ![p] =
                       [r EXCEPT !.err = "failed to get search results from cache"]]
                  /\ stats' = stats
           ELSE IF Len(results) = 0
             THEN /\ sreq' = [sreq EXCEPT ![p] = r]
                  /\ stats' = stats
           ELSE /\ sreq' = [sreq EXCEPT ![p] = [r EXCEPT !.ret = Slice(results)]]
                /\ stats' = [stats EXCEPT !.hits = @ + 1]
  /\ UNCHANGED <<searchRest, lists>>

\* The search results cache on its own.
NextSearch ==
  \/ Tick /\ UNCHANGED <<http, cacheVars>>
  \/ \E p \in Procs, q \in Queries,
        r \in {<<>>, <<"acct:a@example.com">>,
               <<"acct:a@example.com", "acct:b@example.com">>} :
       SetSearchResults(p, q, r, CacheTTL)
  \/ \E p \in Procs, q \in Queries : GetSearchResults(p, q)

SpecSearch == Init /\ [][NextSearch]_<<vars, http, cacheVars>>

\* ---------------------------------------------------------------- rate limiting
\* server.go:134  RateLimit, the outermost handler: a request of client c
\* passes on to the router or is answered with the throttling signal.
RateLimit(c) ==
  /\ Len(outcomes[c]) < MaxRequests
  /\ LET b == IF c \in DOMAIN buckets THEN Refill(buckets[c], now) ELSE NewBucket(now)
         ok == Allow(b)
         after == IF ok THEN Take(b) ELSE b
     IN  /\ buckets' = [k \in DOMAIN buckets \cup {c} |->
                          IF k = c THEN after ELSE buckets[k]]
         /\ outcomes' = [outcomes EXCEPT ![c] =
              Append(@, [at |-> now, throttled |-> ~ok,
                         status |-> IF ok THEN 0 ELSE StatusTooManyRequests])]
  /\ UNCHANGED <<vars, http, redis, stats, userRows, cfg, wreq, lastOp, users, api,
                 lists, sreq>>

\* Requests of the clients arriving at the rate limiter as time passes.
NextRateLimit ==
  \/ Tick /\ UNCHANGED <<http, cacheVars>>
  \/ \E c \in Clients : RateLimit(c)

SpecRateLimit == Init /\ [][NextRateLimit]_<<vars, http, cacheVars>>

\* ---------------------------------------------------------------- resource cache
\* Everything but the call counter that a cache or lookup call leaves alone.
tokenState ==
  <<now, sessions, nextID, proc, issued, written, revoked, revokedAll, http, users, api,
    buckets, outcomes, lists, sreq>>

\* What a step that only moves a call leaves alone.
cacheRest == <<redis, stats, userRows, cfg, lastOp>>

\* Request p is not in a cache or lookup call.
WReady(p) == wreq[p].pc \in {"idle", "done"}

\* What the cache holds for a subject: nothing, a record, or a payload that
\* does not parse.
EntryState(subject) ==
  LET e == IF webfingerKey(subject) \in DOMAIN redis
             THEN redis[webfingerKey(subject)] ELSE NoEntry
  IN  IF ~Holds(e, now) THEN "absent"
      ELSE IF Unmarshal(e.data).err THEN "garbage" ELSE "held"

\* A call of opname on a subject starts.
StartCall(opname, subject) ==
  [NoCall EXCEPT !.op = opname, !.subject = subject, !.n = calls + 1,
                 !.pre = EntryState(subject)]

\* Mutant of SetKey: the value is stored without the expiry.
SetKey_NoExpiry(keys, subject, jrd, expiry, t) ==
  [keys EXCEPT ![webfingerKey(subject)] =
     [present |-> TRUE, data |-> Marshal(jrd), expireAt |-> NoExpiry]]

\* redis.go:92-101  SET key data with the expiry: unconditional overwrite.
SetKey(keys, subject, jrd, expiry, t) ==
  [keys EXCEPT ![webfingerKey(subject)] =
     [present |-> TRUE, data |-> Marshal(jrd),
      expireAt |-> IF expiry = 0 THEN NoExpiry ELSE t + expiry]]

\* The history entry of a SET that took effect.
SetOp(opname, jrd, expiry) ==
  [op |-> "set", by |-> opname, jrd |-> jrd, n |-> calls + 1,
   expireAt |-> IF expiry = 0 THEN NoExpiry ELSE now + expiry]

\* redis.go:92-105  SetWebFingerRecord
SetWebFingerRecord(p, subject, jrd, expiry) ==
  /\ cfg.cache = "redis"
  /\ WReady(p)
  /\ Begin
  /\ \E fault \in BOOLEAN :
       /\ redis' = IF fault THEN redis ELSE SetKey(redis, subject, jrd, expiry, now)
       /\ lastOp' = IF fault THEN lastOp
                    ELSE [lastOp EXCEPT ![subject] = SetOp("SetWebFingerRecord", jrd, expiry)]
       /\ wreq' = [wreq EXCEPT ![p] =
            [StartCall("SetWebFingerRecord", subject) EXCEPT
               !.pc = "done", !.arg = jrd, !.wrote = ~fault,
               !.err = IF fault THEN ErrCacheSet ELSE NoErr]]
  /\ UNCHANGED <<tokenState, stats, userRows, cfg>>

\* redis.go:108-116  DEL key
DelKey(keys, subject) == [keys EXCEPT ![webfingerKey(subject)] = NoEntry]

\* The history entry of a DEL that took effect.
DelOp(opname, ordinal) ==
  [op |-> "del", by |-> opname, jrd |-> NoJRD, n |-> ordinal, expireAt |-> 0]

\* redis.go:108-116  DeleteWebFingerRecord
DeleteWebFingerRecord(p, subject) ==
  /\ cfg.cache = "redis"
  /\ WReady(p)
  /\ Begin
  /\ \E fault \in BOOLEAN :
       /\ redis' = IF fault THEN redis ELSE DelKey(redis, subject)
       /\ lastOp' = IF fault THEN lastOp
                    ELSE [lastOp EXCEPT ![subject] = DelOp("DeleteWebFingerRecord", calls + 1)]
       /\ wreq' = [wreq EXCEPT ![p] =
            [StartCall("DeleteWebFingerRecord", subject) EXCEPT
               !.pc = "done", !.err = IF fault THEN "failed to delete WebFinger record from cache" ELSE NoErr]]
  /\ UNCHANGED <<tokenState, stats, userRows, cfg>>

\* Mutant of GetReturn: HandleWebFinger goes on to the store after a hit too.
GetReturn_HitGoesOn(r, ret, e) ==
  IF r.op = "GetWebFingerRecord"
    THEN [r EXCEPT !.pc = "done", !.ret = ret, !.err = e, !.cerr = e]
    ELSE [r EXCEPT !.pc = "hwf_store", !.cerr = e]

\* How a call goes on when GetWebFingerRecord returns (ret, e): the cache
\* call itself returns them; HandleWebFinger (html_handler.go:200-210)
\* answers a hit, and otherwise goes on to the authoritative store.
GetReturn(r, ret, e) ==
  IF r.op = "GetWebFingerRecord"
    THEN [r EXCEPT !.pc = "done", !.ret = ret, !.err = e, !.cerr = e]
    ELSE IF e = NoErr /\ ~ret.isNil
      THEN [r EXCEPT !.pc = "done", !.cerr = e, !.status = StatusOK, !.xcache = "HIT",
                     !.ctype = ContentTypeJRD, !.body = Marshal(ret.jrd)]
      ELSE [r EXCEPT !.pc = "hwf_store", !.cerr = e]

\* redis.go:85 and 243-245, html_handler.go:209  the counters: a record
\* returned counts a hit; HandleWebFinger counts a miss when it goes on to
\* the store.
Count(r, ret, e) ==
  [hits |-> stats.hits + (IF e = NoErr /\ ~ret.isNil THEN 1 ELSE 0),
   misses |-> stats.misses +
                (IF r.op = "HandleWebFinger" /\ ~(e = NoErr /\ ~ret.isNil) THEN 1 ELSE 0)]

\* redis.go:67-89  GetWebFingerRecord up to the decoding of the payload:
\* GET key; an absent key is a miss; a payload that does not parse leads to
\* the DEL of the key.
GetStep(p, r0) ==
  /\ \E fault \in BOOLEAN :
       LET r == [r0 EXCEPT !.queried = r0.queried \cup {"cache"}]
           e == redis[webfingerKey(r.subject)]
           u == Unmarshal(e.data)
       IN  IF fault
             THEN /\ wreq' = [wreq EXCEPT ![p] = GetReturn(r, NilPtr, ErrCacheGet)]
                  /\ stats' = Count(r, NilPtr, ErrCacheGet)
           ELSE IF ~Holds(e, now)
             THEN /\ wreq' = [wreq EXCEPT ![p] = GetReturn(r, NilPtr, NoErr)]
                  /\ stats' = Count(r, NilPtr, NoErr)
           ELSE IF u.err
             THEN /\ wreq' = [wreq EXCEPT ![p] = [r EXCEPT !.pc = "get_del"]]
                  /\ stats' = stats
           ELSE /\ wreq' = [wreq EXCEPT ![p] = GetReturn(r, PtrTo(u.jrd), NoErr)]
                /\ stats' = Count(r, PtrTo(u.jrd), NoErr)
  /\ UNCHANGED <<redis, userRows, cfg, lastOp>>

\* redis.go:67-89  GetWebFingerRecord
GetWebFingerRecord(p, subject) ==
  /\ cfg.cache = "redis"
  /\ WReady(p)
  /\ Begin
  /\ GetStep(p, StartCall("GetWebFingerRecord", subject))
  /\ UNCHANGED tokenState

\* redis.go:80-83  the corrupted entry is deleted (the result of the DEL is
\* not looked at) and the decode error returned.
GetDel(p) ==
  /\ wreq[p].pc = "get_del"
  /\ \E fault \in BOOLEAN :
       /\ redis' = IF fault THEN redis ELSE DelKey(redis, wreq[p].subject)
       /\ lastOp' = IF fault THEN lastOp
                    ELSE [lastOp EXCEPT ![wreq[p].subject] = DelOp(wreq[p].op, wreq[p].n)]
  /\ wreq' = [wreq EXCEPT ![p] = GetReturn(wreq[p], NilPtr, ErrUnmarshal)]
  /\ stats' = Count(wreq[p], NilPtr, ErrUnmarshal)
  /\ UNCHANGED <<tokenState, calls, userRows, cfg>>

\* The payload of a key is damaged outside the program.
Corrupt(subject) ==
  /\ cfg.cache = "redis"
  /\ EntryState(subject) = "held"
  /\ Begin
  /\ redis' = [redis EXCEPT ![webfingerKey(subject)].data = Garbage]
  /\ lastOp' = [lastOp EXCEPT ![subject] =
       [op |-> "corrupt", by |-> "", jrd |-> NoJRD, n |-> calls + 1, expireAt |-> 0]]
  /\ UNCHANGED <<tokenState, stats, userRows, cfg, wreq>>

\* ---------------------------------------------------------------- HandleWebFinger
\* The handler panics (nil pointer dereference): net/http recovers, writes
\* no response and closes the connection.
Panic(r) == [r EXCEPT !.pc = "done", !.panicked = TRUE]

\* html_handler.go:188-210  HandleWebFinger up to the answer of the cache.
\* h.Cache != nil holds for a connected cache and for the nil *RedisCache
\* alike; on the latter GetWebFingerRecord dereferences the nil receiver
\* (redis.go:68, 248-250).
HandleWebFinger(p, resource) ==
  /\ WReady(p)
  /\ Begin
  /\ LET r == StartCall("HandleWebFinger", resource)
     IN  IF resource = ""
           THEN /\ wreq' = [wreq EXCEPT ![p] =
                             [r EXCEPT !.pc = "done", !.status = StatusBadRequest,
                                       !.ctype = ContentTypeText, !.pre = ""]]
                /\ UNCHANGED cacheRest
         ELSE IF cfg.cache = "unset"
           THEN /\ wreq' = [wreq EXCEPT ![p] = [r EXCEPT !.pc = "hwf_store"]]
                /\ UNCHANGED cacheRest
         ELSE IF cfg.cache = "nilptr"
           THEN /\ wreq' = [wreq EXCEPT ![p] = Panic(r)]
                /\ UNCHANGED cacheRest
         ELSE GetStep(p, r)
  /\ UNCHANGED tokenState

\* html_handler.go:213-217  LookupBySubject returned an error.
StoreMiss(r) ==
  [r EXCEPT !.pc = "done", !.status = StatusNotFound, !.ctype = ContentTypeText]

\* html_handler.go:212-234  LookupBySubject, then the response record.  The
\* PostgresStore returns an error when the query fails or finds no row
\* (store/file.go:101-103); the MockStore returns (nil, nil) for an unknown
\* subject (store/mock.go:22-27), and user.Subject then dereferences nil.
HwfStore(p) ==
  /\ wreq[p].pc = "hwf_store"
  /\ \E fault \in BOOLEAN :
       LET r == [wreq[p] EXCEPT !.queried = wreq[p].queried \cup {"store"}]
           row == userRows[r.subject]
       IN  wreq' = [wreq EXCEPT ![p] =
             IF fault /\ cfg.data = "postgres"
               THEN StoreMiss([r EXCEPT !.derr = ErrStore])
             ELSE IF ~row.present
               THEN IF cfg.data = "postgres"
                      THEN StoreMiss([r EXCEPT !.derr = ErrNoRows])
                      ELSE Panic(r)
             ELSE IF cfg.cache = "unset"
               THEN [r EXCEPT !.pc = "done", !.found = PtrTo(row.jrd),
                              !.status = StatusOK, !.xcache = "MISS",
                              !.ctype = ContentTypeJRD, !.body = Marshal(row.jrd)]
               ELSE [r EXCEPT !.pc = "hwf_set", !.found = PtrTo(row.jrd)]]
  /\ UNCHANGED <<tokenState, calls, redis, stats, userRows, cfg, lastOp>>

\* html_handler.go:226-234  SetWebFingerRecord with the 5 minute expiry,
\* its error dropped, and the answer.
HwfSet(p) ==
  /\ wreq[p].pc = "hwf_set"
  /\ \E fault \in BOOLEAN :
       LET r == wreq[p]
       IN  /\ redis' = IF fault THEN redis
                       ELSE SetKey(redis, r.subject, r.found.jrd, CacheTTL, now)
           /\ lastOp' = IF fault THEN lastOp
                        ELSE [lastOp EXCEPT ![r.subject] =
                                [SetOp("HandleWebFinger", r.found.jrd, CacheTTL)
                                   EXCEPT !.n = r.n]]
           /\ wreq' = [wreq EXCEPT ![p] =
                [r EXCEPT !.pc = "done", !.wrote = ~fault,
                          !.serr = IF fault THEN ErrCacheSet ELSE NoErr,
                          !.status = StatusOK, !.xcache = "MISS",
                          !.ctype = ContentTypeJRD, !.body = Marshal(r.found.jrd)]]
  /\ UNCHANGED <<tokenState, calls, stats, userRows, cfg>>

\* ---------------------------------------------------------------- admin writes
\* admin_handler.go:217-244 with user_store.go:237-341  updateUser and
\* deleteUser: one UPDATE of the users row (profile fields or is_active),
\* and nothing on the cache.
WriteUser(p, opname, subject) ==
  /\ WReady(p)
  /\ Begin
  /\ \E fault \in BOOLEAN :
       LET row == userRows[subject]
           e == IF fault THEN "failed to update user"
                ELSE IF ~row.present THEN "user not found" ELSE NoErr
       IN  /\ userRows' = IF e # NoErr THEN userRows
                          ELSE [userRows EXCEPT ![subject] =
                                  [row EXCEPT !.writeN = calls + 1,
                                     !.is_active = IF opname = "deleteUser" THEN FALSE
                                                   ELSE row.is_active]]
           /\ wreq' = [wreq EXCEPT ![p] =
                [StartCall(opname, subject) EXCEPT !.pc = "done", !.err = e]]
  /\ UNCHANGED <<tokenState, redis, stats, cfg, lastOp>>

updateUser(p, subject) == WriteUser(p, "updateUser", subject)

deleteUser(p, subject) == WriteUser(p, "deleteUser", subject)

\* The cache on its own: the calls of a connected RedisCache.
NextCache ==
  \/ Tick /\ UNCHANGED <<http, cacheVars>>
  \/ \E p \in Procs, s \in Subjects, x \in {NoExpiry, CacheTTL} :
       \E r \in Records(s) : SetWebFingerRecord(p, s, r, x)
  \/ \E p \in Procs, s \in Subjects : DeleteWebFingerRecord(p, s)
  \/ \E p \in Procs, s \in Subjects : GetWebFingerRecord(p, s)
  \/ \E p \in Procs : GetDel(p)
  \/ \E s \in Subjects : Corrupt(s)

SpecCache == Init /\ [][NextCache]_<<vars, http, cacheVars>>

\* The lookup path: the lookup handler over cache and store, and the admin
\* writes.
NextLookup ==
  \/ Tick /\ UNCHANGED <<http, cacheVars>>
  \/ \E p \in Procs, s \in Subjects \cup {""} : HandleWebFinger(p, s)
  \/ \E p \in Procs : GetDel(p)
  \/ \E p \in Procs : HwfStore(p)
  \/ \E p \in Procs : HwfSet(p)
  \/ \E s \in Subjects : Corrupt(s)
  \/ \E p \in Procs, s \in Subjects : updateUser(p, s)
  \/ \E p \in Procs, s \in Subjects : deleteUser(p, s)

\* ---------------------------------------------------------------- WebFingerHandler
\* webfinger.go:22-27  ServeHTTP up to the store: ParseResource, and 400
\* with the error text when it fails.
ServeHTTP(p, resource) ==
  /\ WReady(p)
  /\ Begin
  /\ LET r == StartCall("ServeHTTP", resource)
         parsed == ParseResource(resource)
     IN  wreq' = [wreq EXCEPT ![p] =
           IF parsed[2] # NoErr
             THEN [r EXCEPT !.pc = "done", !.err = parsed[2], !.status = StatusBadRequest,
                            !.ctype = ContentTypeText]
             ELSE [r EXCEPT !.pc = "wf_lookup", !.acct = parsed[1]]]
  /\ UNCHANGED <<tokenState, cacheRest>>

\* webfinger.go:38-53  writeResponse: the content type, the encoded content
\* and 200.
writeResponse(r, content) ==
  [r EXCEPT !.pc = "done", !.ctype = ContentTypeJRD, !.status = StatusOK,
            !.body = Encode(content)]

\* webfinger.go:29-35  LookupBySubject(acct): an error is answered 404,
\* anything else goes to writeResponse.  The PostgresStore returns an error
\* when the query fails or finds no row, the MockStore returns (nil, nil)
\* for an unknown subject.
WfLookup(p) ==
  /\ wreq[p].pc = "wf_lookup"
  /\ \E fault \in BOOLEAN :
       LET r == [wreq[p] EXCEPT !.queried = wreq[p].queried \cup {"store"}]
           row == userRows[r.acct]
       IN  wreq' = [wreq EXCEPT ![p] =
             IF fault /\ cfg.data = "postgres"
               THEN StoreMiss([r EXCEPT !.derr = ErrStore])
             ELSE IF ~row.present
               THEN IF cfg.data = "postgres"
                      THEN StoreMiss([r EXCEPT !.derr = ErrNoRows])
                      ELSE writeResponse(r, NilPtr)
             ELSE writeResponse([r EXCEPT !.found = PtrTo(row.jrd)], PtrTo(row.jrd))]
  /\ UNCHANGED <<tokenState, calls, cacheRest>>

\* The resource parameters sent to the endpoint.
Requested == {"", "acct:", "nobody", SubjectA, BareA}

\* The endpoint before any request: an empty cache; a record stored under
\* acct:a@example.com, and possibly one stored under a@example.com.
InitEndpoint ==
  /\ InitAuth
  /\ redis = [k \in {webfingerKey(s) : s \in Resources \ {""}} |-> NoEntry]
  /\ stats = [hits |-> 0, misses |-> 0]
  /\ \E r \in StoredRecords(SubjectA), bare \in BOOLEAN :
       userRows = [s \in Resources \ {""} |->
                    IF s = SubjectA
                      THEN [present |-> TRUE, jrd |-> r, is_active |-> TRUE, writeN |-> 0]
                    ELSE IF s = BareA /\ bare
                      THEN [present |-> TRUE, jrd |-> PlainJRD(BareA), is_active |-> TRUE,
                            writeN |-> 0]
                    ELSE NoRow]
  /\ cfg \in Configs
  /\ wreq = [p \in Procs |-> NoCall]
  /\ lastOp = [s \in Resources \ {""} |-> NoOp]

\* The two handlers of the WebFinger endpoint.
NextEndpoint ==
  \/ \E p \in Procs, s \in Requested : HandleWebFinger(p, s)
  \/ \E p \in Procs : HwfStore(p)
  \/ \E p \in Procs : HwfSet(p)
  \/ \E p \in Procs, s \in Requested : ServeHTTP(p, s)
  \/ \E p \in Procs : WfLookup(p)

SpecEndpoint == InitEndpoint /\ [][NextEndpoint]_<<vars, http, cacheVars>>

\* Every way the lookup handler is built, over either stored record.
InitLookupPath ==
  /\ InitAuth
  /\ InitLookup

SpecLookup == InitLookupPath /\ [][NextLookup]_<<vars, http, cacheVars>>

\* ---------------------------------------------------------------- account handlers
\* Everything an account handler step leaves alone, but for the call
\* counter, table users and its own request.
acctRest ==
  <<now, sessions, nextID, proc, issued, written, revoked, revokedAll, http,
    redis, stats, userRows, cfg, wreq, lastOp, buckets, outcomes, lists, sreq>>

\* Request p is not in an account handler.
AReady(p) == api[p].pc \in {"idle", "done"}

\* user_store.go:165-198  GetUserByUsername: the rows WHERE username = $1.
GetUserByUsername(rows, username) == {u \in rows : u.username = username}

\* user_store.go:201-234  GetUserByEmail: the rows WHERE email = $1.
GetUserByEmail(rows, email) == {u \in rows : u.email = email}

\* The auth.User the store builds from a row.
UserOf(row) ==
  [ID |-> row.id, Username |-> row.username, Email |-> row.email, IsAdmin |-> row.is_admin]

\* writeError(w, code, message, "") and return.
Reject(r, code, message) == [r EXCEPT !.pc = "done", !.status = code, !.message = message]

\* The columns of the RETURNING clause of CreateUser's INSERT
\* (user_store.go:80-81) and the destinations of its Scan
\* (user_store.go:97-111).
ReturningColumns == 16

ScanDestinations == 13

\* types/jrd.go:27-31  the UNIQUE constraints on username and email (the
\* subject, built from the username, follows the username).
UniqueViolation(rows, username, email) ==
  \E u \in rows : u.username = username \/ u.email = email

\* user_store.go:65-126  CreateUser: the INSERT fails on a store failure or
\* a UNIQUE violation; otherwise it adds the row, with the empty string as
\* password_hash (user_store.go:92) and the defaults of the table, and the
\* Scan of the returned row fails when the numbers of columns and of
\* destinations differ.
CreateUser(rows, username, email, hash, fault) ==
  IF fault \/ UniqueViolation(rows, username, email)
    THEN [rows |-> rows, err |-> ErrCreateUser, inserted |-> FALSE]
    ELSE [rows |-> rows \cup {UserRow(Cardinality(rows) + 1, username, email, NoHash, TRUE)},
          err |-> IF ReturningColumns # ScanDestinations THEN ErrCreateUser ELSE NoErr,
          inserted |-> TRUE]

\* auth_handler.go:123-157  HandleRegister up to the answer of
\* GetUserByUsername, whose error is dropped.
HandleRegister(p, username, email, password) ==
  /\ AReady(p)
  /\ Begin
  /\ \E fault \in BOOLEAN :
       LET r == [NoApi EXCEPT !.op = "HandleRegister", !.username = username,
                              !.email = email, !.password = password, !.n = calls + 1,
                              !.taken = UniqueViolation(users, username, email),
                              !.faulted = fault]
           existingUser == IF fault THEN {} ELSE GetUserByUsername(users, username)
       IN  api' = [api EXCEPT ![p] =
             IF username = "" \/ email = "" \/ password = ""
               THEN Reject(r, StatusBadRequest, "Username, email, and password required")
             ELSE IF Len(password) < 8
               THEN Reject(r, StatusBadRequest, "Password must be at least 8 characters")
             ELSE IF ~Contains(email, "@")
               THEN Reject(r, StatusBadRequest, "Invalid email format")
             ELSE IF existingUser # {}
               THEN Reject(r, StatusConflict, "Username already exists")
             ELSE [r EXCEPT !.pc = "reg_email"]]
  /\ UNCHANGED <<acctRest, users>>

\* auth_handler.go:159-164  GetUserByEmail, its error dropped.
RegEmail(p) ==
  /\ api[p].pc = "reg_email"
  /\ \E fault \in BOOLEAN :
       LET r == [api[p] EXCEPT !.faulted = api[p].faulted \/ fault]
           existingUser == IF fault THEN {} ELSE GetUserByEmail(users, r.email)
       IN  api' = [api EXCEPT ![p] =
             IF existingUser # {}
               THEN Reject(r, StatusConflict, "Email already exists")
               ELSE [r EXCEPT !.pc = "reg_create"]]
  /\ UNCHANGED <<acctRest, calls, users>>

\* auth_handler.go:166-194  HashPassword, CreateUser and the answer.
RegCreate(p) ==
  /\ api[p].pc = "reg_create"
  /\ \E fault \in BOOLEAN :
       LET r == [api[p] EXCEPT !.faulted = api[p].faulted \/ fault,
                               !.conflict = UniqueViolation(users, api[p].username,
                                                            api[p].email)]
           c == CreateUser(users, r.username, r.email, HashPassword(r.password), fault)
       IN  /\ users' = c.rows
           /\ api' = [api EXCEPT ![p] =
                IF c.err # NoErr
                  THEN Reject([r EXCEPT !.created = c.inserted],
                              StatusInternalServerError, "Failed to create user")
                  ELSE [r EXCEPT !.pc = "done", !.created = c.inserted,
                                 !.status = StatusCreated,
                                 !.message = "User created successfully"]]
  /\ UNCHANGED <<acctRest, calls>>

\* The row HandleLogin looks for: by email when the name holds an '@', by
\* username otherwise (auth_handler.go:70-74).
FindLogin(rows, name) ==
  IF Contains(name, "@") THEN GetUserByEmail(rows, name) ELSE GetUserByUsername(rows, name)

\* auth_handler.go:48-91  HandleLogin up to the verification of the
\* password.
HandleLogin(p, name, password) ==
  /\ AReady(p)
  /\ Begin
  /\ \E fault \in BOOLEAN :
       LET found == FindLogin(users, name)
           r == [NoApi EXCEPT !.op = "HandleLogin", !.username = name,
                              !.password = password, !.n = calls + 1,
                              !.known = found # {}, !.faulted = fault,
                              !.inactive = \E u \in found : ~u.is_active,
                              !.wrong = \A u \in found :
                                          ~VerifyPassword(password, u.password_hash)]
       IN  api' = [api EXCEPT ![p] =
             IF name = "" \/ password = ""
               THEN Reject(r, StatusBadRequest, "Username and password required")
             ELSE IF fault \/ found = {}
               THEN Reject(r, StatusUnauthorized, "Invalid credentials")
             ELSE LET user == CHOOSE u \in found : TRUE
                  IN  IF ~user.is_active
                        THEN Reject(r, StatusForbidden, "Account is disabled")
                      ELSE IF ~VerifyPassword(password, user.password_hash)
                        THEN Reject(r, StatusUnauthorized, "Invalid credentials")
                      ELSE [r EXCEPT !.pc = "login_issue", !.user = UserOf(user)]]
  /\ UNCHANGED <<acctRest, users>>

\* auth_handler.go:93-119  UpdateLastLogin (its error dropped), GenerateToken
\* and the answer.
LoginIssue(p) ==
  /\ api[p].pc = "login_issue"
  /\ Issue(p, "HandleLogin", api[p].user, Idle)
  /\ api' = [api EXCEPT ![p] =
       IF proc'[p].err # NoErr
         THEN Reject([api[p] EXCEPT !.faulted = TRUE],
                     StatusInternalServerError, "Failed to generate token")
         ELSE [api[p] EXCEPT !.pc = "done", !.status = StatusOK, !.token = proc'[p].ret,
                             !.expires_at = ResponseExpiry(now)]]
  /\ UNCHANGED <<calls, http, redis, stats, userRows, cfg, wreq, lastOp, users,
                 buckets, outcomes, lists, sreq>>

\* The account endpoints /api/auth/register and /api/auth/login
\* (server.go:106-107).
NextAccounts ==
  \/ \E p \in Procs, u \in {"alice", "carol"},
          e \in {"alice@example.com", "carol@example.com"},
          pw \in {"password123", "short"} :
       HandleRegister(p, u, e, pw)
  \/ \E p \in Procs : RegEmail(p)
  \/ \E p \in Procs : RegCreate(p)
  \/ \E p \in Procs, n \in {"alice", "bob", "carol", "alice@example.com"},
          pw \in {"password123", "wrongpass9"} : HandleLogin(p, n, pw)
  \/ \E p \in Procs : LoginIssue(p)

SpecAccounts == Init /\ [][NextAccounts]_<<vars, http, cacheVars>>

\* ---------------------------------------------------------------- deactivation
\* user_store.go:327-328  the rows after
\* UPDATE users SET is_active = false WHERE id = $1.
Deactivate(rows, id) ==
  {IF u.id = id THEN [u EXCEPT !.is_active = FALSE] ELSE u : u \in rows}

\* admin_handler.go:237-244 and user_store.go:326-340  deleteUser: the
\* UPDATE through the user store; no session is touched.
DeleteUser(id) ==
  /\ \E fault \in BOOLEAN :
       users' = IF fault THEN users ELSE Deactivate(users, id)
  /\ UNCHANGED <<acctRest, api, calls>>

\* Logins and refreshes of the credentials they hand out, while an
\* administrator deactivates accounts.
NextDeactivate ==
  \/ Tick /\ UNCHANGED <<http, cacheVars>>
  \/ \E p \in Procs, n \in {"alice", "bob"} :
       Ready(p) /\ HandleLogin(p, n, "password123")
  \/ \E p \in Procs : LoginIssue(p)
  \/ \E id \in {1, 2} : DeleteUser(id)
  \/ \E p \in Procs, t \in IssuedTokens :
       AReady(p) /\ Lookup(p, "RefreshToken", t) /\ UNCHANGED <<http, cacheVars>>
  \/ \E p \in Procs : VtFinish(p) /\ UNCHANGED <<http, cacheVars>>
  \/ \E p \in Procs : RfRevoke(p) /\ UNCHANGED <<http, cacheVars>>
  \/ \E p \in Procs : RfIssue(p) /\ UNCHANGED <<http, cacheVars>>

SpecDeactivate == Init /\ [][NextDeactivate]_<<vars, http, cacheVars>>

\* ================================================================ properties
\* Request p has returned from a call of opname.
Done(p, opname) == proc[p].pc = "done" /\ proc[p].op = opname

\* The call of request p returned a nil error.
Ok(p) == proc[p].err = NoErr

\* The user a credential was issued for.
IssuedTo(tokenString) == (CHOOSE i \in issued : i.tok = tokenString).user

\* The claims carry the user's subject id, username, email and privilege flag.
ClaimsMatch(c, u) ==
  /\ c.UserID = u.ID
  /\ c.Username = u.Username
  /\ c.Email = u.Email
  /\ c.IsAdmin = u.IsAdmin

\* The old credential passed the validation inside RefreshToken.
RefreshValidated(p) ==
  /\ proc[p].op = "RefreshToken"
  /\ proc[p].pc \in {"rf_revoke", "rf_issue"} \/ (proc[p].pc = "done" /\ proc[p].err # ErrRefresh)

\* C1: ValidateToken returns claims only if, when it looked, the ledger
\* held a row for the hash of the credential whose expires_at was in the
\* future; a correctly signed, unexpired credential without such a row is
\* rejected.  The same holds of the validation RefreshToken starts with.
C1_ValidateNeedsLiveRow ==
  \A p \in Procs :
    /\ (Done(p, "ValidateToken") /\ Ok(p)) => proc[p].pre.row = "live"
    /\ RefreshValidated(p) => proc[p].pre.row = "live"

\* A correctly signed credential whose exp claim is still ahead and which
\* has no row in the ledger was rejected with "session not found".
C1_Witness ==
  \E p \in Procs :
    /\ Done(p, "ValidateToken")
    /\ ParseWithClaims(proc[p].tok, now)
    /\ proc[p].pre.row = "none"
    /\ proc[p].err = ErrSessionNotFound
    /\ proc[p].cause = ErrSessionNotFound

\* C2: once RevokeToken(c) has returned nil, every ValidateToken(c) that
\* starts afterwards returns an error (and so does the validation inside a
\* RefreshToken(c) that starts afterwards).
C2_RevokedIsRejected ==
  \A p \in Procs :
    /\ (Done(p, "ValidateToken") /\ proc[p].pre.revoked) => ~Ok(p)
    /\ (proc[p].op = "RefreshToken" /\ proc[p].pre.revoked) =>
         (proc[p].pc = "done" /\ proc[p].err = ErrRefresh)

\* A credential that was issued and is still within its exp claim was
\* validated after its revocation returned, and rejected.
C2_Witness ==
  \E p \in Procs :
    /\ Done(p, "ValidateToken")
    /\ proc[p].tok \in IssuedTokens
    /\ proc[p].pre.revoked
    /\ ParseWithClaims(proc[p].tok, now)
    /\ proc[p].err = ErrSessionNotFound

\* C3 as stated (store failures set aside): a ValidateToken of an issued
\* credential whose session is neither revoked nor expired succeeds and
\* returns the claims of the user it was issued for.
C3_RoundTripWhileSessionLive ==
  \A p \in Procs :
    (/\ Done(p, "ValidateToken")
     /\ proc[p].tok \in IssuedTokens
     /\ RowState(proc[p].tok) = "live"
     /\ proc[p].cause # ErrGetSession)
    => (Ok(p) /\ ClaimsMatch(proc[p].retClaims, IssuedTo(proc[p].tok)))

\* C3 (amended): a ValidateToken of an issued credential succeeds and
\* returns the claims of the user it was issued for as long as its session
\* is neither revoked nor expired, its exp claim (expires_at truncated to
\* the second) has not been reached, and the session lookup does not fail
\* in the store.
C3_RoundTrip ==
  \A p \in Procs :
    (/\ Done(p, "ValidateToken")
     /\ proc[p].tok \in IssuedTokens
     /\ RowState(proc[p].tok) = "live"
     /\ proc[p].tok.claims.ExpiresAt > now
     /\ proc[p].cause # ErrGetSession)
    => (Ok(p) /\ ClaimsMatch(proc[p].retClaims, IssuedTo(proc[p].tok)))

\* An issued credential was validated and the claims of its user returned.
C3_Witness ==
  \E p \in Procs :
    /\ Done(p, "ValidateToken")
    /\ proc[p].tok \in IssuedTokens
    /\ Ok(p)
    /\ ClaimsMatch(proc[p].retClaims, IssuedTo(proc[p].tok))
    /\ ~IssuedTo(proc[p].tok).IsAdmin

\* C4: a credential whose session row is present with expires_at passed
\* when ValidateToken starts is rejected, whether or not the sweep has run.
C4_ExpiredIsRejected ==
  \A p \in Procs :
    (Done(p, "ValidateToken") /\ proc[p].pre.row = "expired") => ~Ok(p)

\* An expired credential was rejected while its row is still in the ledger.
C4_Witness ==
  \E p \in Procs :
    /\ Done(p, "ValidateToken")
    /\ proc[p].pre.row = "expired"
    /\ ~Ok(p)
    /\ RowState(proc[p].tok) = "expired"

\* C5: GenerateToken fails closed: when CreateSession returns an error it
\* returns an error and the empty string, and every credential handed to a
\* caller has had its session row written.
C5_FailsClosed ==
  /\ \A p \in Procs :
       (proc[p].pc = "done" /\ proc[p].op \in {"GenerateToken", "RefreshToken"}
          /\ proc[p].createErr # NoErr)
       => (proc[p].ret = NoToken /\ proc[p].err # NoErr)
  /\ \A i \in issued : hashToken(i.tok) \in written

\* CreateSession failed and GenerateToken returned an error and no credential.
C5_Witness ==
  \E p \in Procs :
    /\ Done(p, "GenerateToken")
    /\ proc[p].createErr = ErrCreateSession
    /\ proc[p].err = ErrCreateSession
    /\ proc[p].ret = NoToken

\* In this step the RefreshToken call of request p returns a credential.
RefreshReturns(p) ==
  /\ proc[p].pc = "rf_issue"
  /\ proc'[p].pc = "done"
  /\ proc'[p].err = NoErr

\* C6 as stated: after every successful RefreshToken(A) returning B,
\* ValidateToken(A) fails and ValidateToken(B) succeeds.
C6_RefreshInvalidatesOld ==
  [][\A p \in Procs :
       RefreshReturns(p) =>
         /\ ValidateOutcome(sessions', now', proc'[p].tok) # NoErr
         /\ ValidateOutcome(sessions', now', proc'[p].ret) = NoErr]_vars

\* C6 (amended): after a successful RefreshToken(A) that returns B and
\* whose revocation of A did not fail in the session store, ValidateToken(A)
\* fails, at the return and for as long as the result is held, and
\* ValidateToken(B) succeeds at the return.
C6_RefreshInvalidatesOldUnlessRevokeFailed ==
  [][\A p \in Procs :
       /\ (RefreshReturns(p) /\ proc'[p].revErr # ErrDeleteSession) =>
            /\ ValidateOutcome(sessions', now', proc'[p].tok) # NoErr
            /\ ValidateOutcome(sessions', now', proc'[p].ret) = NoErr
       /\ (proc'[p].pc = "done" /\ proc'[p].op = "RefreshToken"
             /\ proc'[p].err = NoErr /\ proc'[p].revErr # ErrDeleteSession) =>
            ValidateOutcome(sessions', now', proc'[p].tok) # NoErr]_vars

\* RefreshToken(A) returned B after deleting A's session; a later
\* ValidateToken(A) by another request was rejected and B is accepted.
C6_Witness ==
  \E p, q \in Procs :
    /\ Done(p, "RefreshToken") /\ Ok(p)
    /\ proc[p].revErr = NoErr
    /\ Done(q, "ValidateToken")
    /\ proc[q].tok = proc[p].tok
    /\ proc[q].n > proc[p].n
    /\ ~Ok(q)
    /\ ValidateOutcome(sessions, now, proc[p].ret) = NoErr

\* C7: a RefreshToken whose revocation of the old credential returned an
\* error does not fail for that reason: unless the creation of the new
\* session fails, it returns the new credential and a nil error.
C7_RevokeErrorIgnored ==
  \A p \in Procs :
    (Done(p, "RefreshToken") /\ proc[p].revErr # NoErr)
    => \/ (Ok(p) /\ proc[p].ret # NoToken /\ proc[p].ret \in IssuedTokens)
       \/ proc[p].createErr # NoErr

\* The DELETE of the old session failed in the store and RefreshToken
\* returned the new credential.
C7_Witness ==
  \E p \in Procs :
    /\ Done(p, "RefreshToken")
    /\ proc[p].revErr = ErrDeleteSession
    /\ Ok(p)
    /\ proc[p].ret \in IssuedTokens
    /\ RowState(proc[p].tok) = "live"

\* C8: RefreshToken validates the old credential, creates the session of
\* the new credential, and then revokes the old one: whenever a RefreshToken
\* has deleted the old session, the session of its new credential has been
\* written.
C8_IssueBeforeRevoke ==
  \A p \in Procs :
    (proc[p].op = "RefreshToken" /\ proc[p].pc \in {"rf_issue", "done"}
       /\ proc[p].revErr = NoErr /\ proc[p].rows > 0)
    => (proc[p].ret # NoToken /\ hashToken(proc[p].ret) \in written)

\* C9: RevokeToken of a credential that has no session row (already
\* revoked, or never registered) returns no error, the store not failing.
C9_RevokeIdempotent ==
  \A p \in Procs :
    (Done(p, "RevokeToken") /\ proc[p].pre.row = "none"
       /\ proc[p].err # ErrDeleteSession)
    => Ok(p)

\* In this step request p calls RevokeAllUserTokens.
RevokeAllStep(p) ==
  /\ Ready(p)
  /\ proc'[p].op = "RevokeAllUserTokens"
  /\ proc'[p].n = calls + 1

\* C10: when RevokeAllUserTokens(u) returns nil, every credential issued
\* for u so far fails ValidateToken, and so does every ValidateToken of such
\* a credential that starts later; the call leaves the session rows of
\* every other subject as they were.
C10_RevokeAllRevokesUserOnly ==
  [][\A p \in Procs :
       /\ RevokeAllStep(p) =>
            /\ {s \in sessions' : s.user_id # proc'[p].user.ID}
                 = {s \in sessions : s.user_id # proc'[p].user.ID}
            /\ proc'[p].err = NoErr =>
                 \A i \in issued : i.user.ID = proc'[p].user.ID =>
                   ValidateOutcome(sessions', now', i.tok) # NoErr
       /\ (proc'[p].pc = "done" /\ proc'[p].op = "ValidateToken"
             /\ proc'[p].pre.revokedAll) => proc'[p].err # NoErr]_vars

\* RevokeAllUserTokens(u) returned nil; a credential issued for u, still
\* within its exp claim, has no live session any more, and a row of another
\* subject is still in the ledger.
C10_Witness ==
  \E p \in Procs :
    /\ Done(p, "RevokeAllUserTokens") /\ Ok(p)
    /\ \E i \in issued :
         /\ i.user.ID = proc[p].user.ID
         /\ i.tok \in revokedAll
         /\ ParseWithClaims(i.tok, now)
         /\ ValidateOutcome(sessions, now, i.tok) = ErrSessionNotFound
    /\ \E s \in sessions : s.user_id # proc[p].user.ID

\* The session of credential c was written and is no longer live: it has been
\* deleted (revoked) or its expires_at has passed.
SessionDead(c) == hashToken(c) \in written /\ RowState(c) # "live"

\* C11: a dead session stays dead: once the session of an issued credential
\* has been revoked or has expired, no step of any operation makes it live
\* again, ValidateToken of the credential would be rejected after every
\* step, and every ValidateToken that starts on the dead session fails.
C11_DeadIsTerminal ==
  [][/\ \A c \in IssuedTokens :
          SessionDead(c) =>
            /\ SessionDead(c)'
            /\ ValidateOutcome(sessions', now', c) # NoErr
     /\ \A p \in Procs :
          (/\ proc'[p].pc = "done" /\ proc'[p].op = "ValidateToken"
           /\ proc'[p].tok \in IssuedTokens
           /\ proc'[p].pre.row # "live")
          => proc'[p].err # NoErr]_vars

\* The session of a credential was deleted, a newer credential of the same
\* user has a live session, and a ValidateToken of the old credential that
\* started on the dead session was rejected.
C11_Witness ==
  \E p \in Procs :
    /\ Done(p, "ValidateToken")
    /\ proc[p].tok \in IssuedTokens
    /\ SessionDead(proc[p].tok)
    /\ proc[p].pre.row = "none"
    /\ ~Ok(p)
    /\ \E i \in issued :
         /\ i.user = IssuedTo(proc[p].tok)
         /\ i.tok.claims.ID > proc[p].tok.claims.ID
         /\ RowState(i.tok) = "live"

\* C12: the ledger never holds two rows with the same token_hash.
C12_OneRowPerHash ==
  \A s1, s2 \in sessions : s1.token_hash = s2.token_hash => s1 = s2

\* A RefreshToken has returned a credential and the ledger holds two rows of
\* the same user.
C12_Witness ==
  \E p \in Procs :
    /\ Done(p, "RefreshToken") /\ Ok(p)
    /\ \E s1, s2 \in sessions :
         /\ s1 # s2
         /\ s1.user_id = s2.user_id
         /\ s2.token_hash = hashToken(proc[p].ret)

\* The exchange of request p on an admin route has been answered.
AdminAnswered(p) == http[p].at = "responded" /\ http[p].route = AdminRoute

\* The request carried a bearer credential with the privilege flag set.
CarriesAdmin(p) == extractToken(http[p].header).claims.IsAdmin

\* C13: the handler of an admin route is invoked if and only if the request
\* carries a credential that ValidateToken accepts and whose claims have the
\* privilege flag set.
C13_AdminInvokedIffAdmin ==
  \A p \in Procs :
    AdminAnswered(p) => (http[p].invoked <=> (http[p].live /\ CarriesAdmin(p)))

\* C14: a request to an admin route with a live credential without the
\* privilege flag is answered 403; one with no credential or a credential
\* that is not live is answered 401.
C14_ForbiddenVersusUnauthorized ==
  \A p \in Procs :
    AdminAnswered(p) =>
      /\ (http[p].live /\ ~CarriesAdmin(p)) => http[p].status = StatusForbidden
      /\ ~http[p].live => http[p].status = StatusUnauthorized

\* ---------------------------------------------------------------- cache round trip
allVars == <<vars, http, cacheVars>>

\* Request p starts a call of opname on subject s in this step.
Starts(p, opname, s) ==
  /\ WReady(p)
  /\ wreq'[p].op = opname
  /\ wreq'[p].subject = s
  /\ wreq'[p].n = calls + 1

\* The last operation that took effect on the key of s is a SET whose expiry
\* has not elapsed.
LastSetHeld(s) ==
  /\ lastOp[s].op = "set"
  /\ (lastOp[s].expireAt = NoExpiry \/ now < lastOp[s].expireAt)

\* The record that equals jrd as a JSON document and is what a decoder
\* builds: collections without elements are nil, every number is a float64.
AsDecoded(jrd) ==
  [Subject |-> jrd.Subject,
   Aliases |-> IF Len(jrd.Aliases.elems) = 0 THEN NilSlice ELSE jrd.Aliases,
   Properties |->
     IF jrd.Properties.kv = {} THEN NilMap
     ELSE MapOf({[e EXCEPT !.kind = IF e.kind = "int" THEN "float64" ELSE e.kind] :
                   e \in jrd.Properties.kv}),
   Links |-> IF Len(jrd.Links.elems) = 0 THEN NilSlice ELSE jrd.Links]

\* GetWebFingerRecord started by p on s returns ret with a nil error.
GetReturns(p, ret) ==
  /\ wreq'[p].pc = "done"
  /\ wreq'[p].err = NoErr
  /\ wreq'[p].ret = ret

\* C15 as stated: a GetWebFingerRecord that starts right after a
\* SetWebFingerRecord of r took effect on the same subject (no call in
\* between, expiry not elapsed, the GET itself not failing) returns a record
\* equal to r; one that starts after a DeleteWebFingerRecord took effect
\* returns (nil, nil).
C15_SetGetEqual ==
  [][\A p \in Procs, s \in Subjects :
       (Starts(p, "GetWebFingerRecord", s) /\ wreq'[p].err # ErrCacheGet) =>
         /\ (LastSetHeld(s) /\ lastOp[s].n = calls)
              => GetReturns(p, PtrTo(lastOp[s].jrd))
         /\ (lastOp[s].op = "del" /\ lastOp[s].by = "DeleteWebFingerRecord")
              => GetReturns(p, NilPtr)]_allVars

\* C15 (amended): under the same conditions the record returned equals r as
\* a JSON document: it is r with empty collections nil and numbers float64;
\* after a DeleteWebFingerRecord that took effect the call returns
\* (nil, nil).
C15_SetGetJSONEqual ==
  [][\A p \in Procs, s \in Subjects :
       (Starts(p, "GetWebFingerRecord", s) /\ wreq'[p].err # ErrCacheGet) =>
         /\ (LastSetHeld(s) /\ lastOp[s].n = calls)
              => GetReturns(p, PtrTo(AsDecoded(lastOp[s].jrd)))
         /\ (lastOp[s].op = "del" /\ lastOp[s].by = "DeleteWebFingerRecord")
              => GetReturns(p, NilPtr)]_allVars

\* A GetWebFingerRecord right after the SET of a record with an integer
\* property and an empty alias list has returned.
C15_Witness ==
  \E p \in Procs, s \in Subjects :
    /\ wreq[p].op = "GetWebFingerRecord"
    /\ wreq[p].pc = "done"
    /\ wreq[p].subject = s
    /\ wreq[p].n = calls
    /\ lastOp[s].op = "set"
    /\ lastOp[s].n = calls - 1
    /\ lastOp[s].jrd = IntJRD(s)
    /\ wreq[p].err = NoErr
    /\ wreq[p].ret = PtrTo(AsDecoded(IntJRD(s)))
    /\ wreq[p].ret # PtrTo(IntJRD(s))

\* ---------------------------------------------------------------- corrupted entries
\* C16: a GetWebFingerRecord that finds a payload it cannot decode (and whose
\* GET did not fail) returns a miss: a nil record and a nil error.
C16_CorruptIsMiss ==
  \A p \in Procs :
    (/\ wreq[p].op = "GetWebFingerRecord"
     /\ wreq[p].pc = "done"
     /\ wreq[p].pre = "garbage"
     /\ wreq[p].err # ErrCacheGet)
    => (wreq[p].ret = NilPtr /\ wreq[p].err = NoErr)

\* ---------------------------------------------------------------- lookup through the cache
\* Request p has finished a HandleWebFinger lookup.
Answered(p) == wreq[p].op = "HandleWebFinger" /\ wreq[p].pc = "done"

\* The lookup of p found the cache connected and without an entry for its
\* subject, and the store, holding the record, did not fail.
PlainMiss(p) ==
  /\ cfg.cache = "redis"
  /\ wreq[p].pre = "absent"
  /\ userRows[wreq[p].subject].present
  /\ wreq[p].derr = NoErr

\* C17: with a connected cache and no backend call failing, a lookup of a
\* resource that the store holds and the cache does not answers 200 with
\* cache status MISS and the stored record as body, and its SET leaves the
\* record under the subject's key; a lookup of the same resource that
\* starts right after it (no call in between, expiry not elapsed) answers
\* HIT with the same body.
C17_MissThenHit ==
  [][\A p \in Procs :
       /\ (Answered(p) /\ PlainMiss(p)) =>
            /\ wreq[p].status = StatusOK
            /\ wreq[p].xcache = "MISS"
            /\ wreq[p].body = Marshal(userRows[wreq[p].subject].jrd)
            /\ wreq[p].serr = NoErr => wreq[p].wrote
       /\ (wreq[p].pc = "hwf_set" /\ wreq'[p].pc = "done" /\ wreq'[p].serr = NoErr) =>
            LET e == redis'[webfingerKey(wreq[p].subject)]
            IN  /\ Holds(e, now)
                /\ e.data = Marshal(userRows[wreq[p].subject].jrd)
                /\ e.expireAt = now + CacheTTL
       /\ \A s \in Subjects :
            (/\ Starts(p, "HandleWebFinger", s)
             /\ cfg.cache = "redis"
             /\ LastSetHeld(s)
             /\ lastOp[s].by = "HandleWebFinger"
             /\ lastOp[s].n = calls
             /\ wreq'[p].cerr # ErrCacheGet) =>
               /\ wreq'[p].pc = "done"
               /\ wreq'[p].status = StatusOK
               /\ wreq'[p].xcache = "HIT"
               /\ \A q \in Procs : wreq[q].n = calls => wreq'[p].body = wreq[q].body]_allVars

\* A lookup that missed and wrote, and the next lookup of the same resource,
\* a hit with the same body; the stored record has empty collections.
C17_Witness ==
  \E p, q \in Procs, s \in Subjects :
    /\ p # q
    /\ userRows[s].jrd = EmptyJRD(s)
    /\ Answered(q) /\ wreq[q].subject = s /\ PlainMiss(q)
    /\ wreq[q].xcache = "MISS" /\ wreq[q].wrote /\ wreq[q].n = calls - 1
    /\ Answered(p) /\ wreq[p].subject = s /\ wreq[p].n = calls
    /\ wreq[p].xcache = "HIT"
    /\ wreq[p].body = wreq[q].body

\* ---------------------------------------------------------------- store misses
\* C18: a lookup of a resource the store has no record of (the cache,
\* connected or left unset, not serving it) answers 404 and writes nothing
\* to the cache, whether the store signals the miss by an error
\* (PostgresStore) or by a nil record with a nil error (MockStore).
C18_StoreMissIsNotFound ==
  \A p \in Procs :
    (/\ Answered(p)
     /\ wreq[p].subject \in Subjects
     /\ cfg.cache # "nilptr"
     /\ wreq[p].xcache # "HIT"
     /\ ~userRows[wreq[p].subject].present)
    => (wreq[p].status = StatusNotFound /\ ~wreq[p].panicked /\ ~wreq[p].wrote)

\* ---------------------------------------------------------------- cache failures
\* What a lookup of subject s answers on a plain miss when the store does
\* not fail: the stored record with 200 and MISS, or 404.
AnswersFromStore(p, s) ==
  /\ ~wreq[p].panicked
  /\ IF userRows[s].present
       THEN /\ wreq[p].status = StatusOK
            /\ wreq[p].xcache = "MISS"
            /\ wreq[p].body = Marshal(userRows[s].jrd)
       ELSE wreq[p].status = StatusNotFound

\* The lookup of p met a store that failed or signalled its miss by
\* (nil, nil).
StoreTrouble(p) ==
  \/ wreq[p].derr = ErrStore
  \/ cfg.data = "mock" /\ ~userRows[wreq[p].subject].present

\* The cache of the handler is a connected one.
Connected == cfg.cache = "redis"

\* C19: a lookup whose GetWebFingerRecord or SetWebFingerRecord returned an
\* error, or whose handler has no working cache, answers from the store as
\* on a plain miss.
C19_DegradeNotFail ==
  \A p \in Procs :
    (/\ Answered(p)
     /\ wreq[p].subject \in Subjects
     /\ ~StoreTrouble(p)
     /\ (wreq[p].cerr # NoErr \/ wreq[p].serr # NoErr \/ ~Connected))
    => AnswersFromStore(p, wreq[p].subject)

\* ---------------------------------------------------------------- invalidation on write
\* C20: when an admin update or deactivation of the user behind subject s
\* succeeds, the cache holds no entry for s afterwards, and no lookup that
\* starts after the write is answered HIT from an entry written before it.
C20_WriteInvalidates ==
  [][\A p \in Procs, s \in Subjects :
       /\ ((Starts(p, "updateUser", s) \/ Starts(p, "deleteUser", s)) /\ wreq'[p].err = NoErr)
            => ~Holds(redis'[webfingerKey(s)], now)
       /\ (Starts(p, "HandleWebFinger", s) /\ wreq'[p].xcache = "HIT")
            => ~(lastOp[s].op = "set" /\ lastOp[s].n < userRows[s].writeN)]_allVars

\* ---------------------------------------------------------------- the WebFinger endpoint
\* Request p has an answer from one of the handlers of the endpoint.
EndpointAnswered(p) ==
  wreq[p].pc = "done" /\ wreq[p].op \in {"HandleWebFinger", "ServeHTTP"}

\* The resource parameter is absent or, once an acct: prefix is stripped,
\* holds no '@'.
BadResource(resource) == resource = "" \/ ~Contains(TrimPrefix(resource, "acct:"), "@")

\* C21: a request to the endpoint whose resource parameter is absent or not
\* of the resource-key shape is answered 400, and neither the cache nor the
\* store is queried for it.
C21_BadResourceIs400 ==
  \A p \in Procs :
    (EndpointAnswered(p) /\ BadResource(wreq[p].subject))
    => (wreq[p].status = StatusBadRequest /\ wreq[p].queried = {})

\* C22: a WebFingerHandler request with resource=acct:X, for a record
\* stored under subject acct:X and a store that does not fail, is answered
\* 200 with content type application/jrd+json and a body whose subject and
\* properties are those of the stored record.
C22_StoredRecordServed ==
  \A p \in Procs :
    (/\ wreq[p].pc = "done"
     /\ wreq[p].op = "ServeHTTP"
     /\ wreq[p].subject \in Subjects
     /\ userRows[wreq[p].subject].present
     /\ wreq[p].derr # ErrStore)
    => LET stored == userRows[wreq[p].subject].jrd
           got == Unmarshal(wreq[p].body).jrd
       IN  /\ wreq[p].status = StatusOK
           /\ wreq[p].ctype = ContentTypeJRD
           /\ got.Subject = stored.Subject
           /\ got.Properties = AsDecoded(stored).Properties

\* C30: a lookup during which the authoritative store failed (as opposed to
\* holding no matching record) is answered with a 5xx status.
C30_StoreFailureIs5xx ==
  \A p \in Procs :
    (EndpointAnswered(p) /\ wreq[p].derr = ErrStore) => wreq[p].status >= 500

\* ---------------------------------------------------------------- accounts: login and register
\* Request p has an answer from opname.
ApiDone(p, opname) == api[p].pc = "done" /\ api[p].op = opname

\* C23: the answer to a failed login is the same (status and message)
\* whether the submitted name belongs to no user or to an existing user
\* whose password is not the submitted one.
C23_FailedLoginsAlike ==
  \A p, q \in Procs :
    (/\ ApiDone(p, "HandleLogin") /\ ~api[p].known
     /\ ApiDone(q, "HandleLogin") /\ api[q].known /\ api[q].wrong)
    => (api[p].status = api[q].status /\ api[p].message = api[q].message)

\* C24: a register of username, email and password that created the
\* account is answered 201, and a later login with that username and
\* password that meets no store failure is answered 200 with a credential
\* ValidateToken accepts.
C24_RegisterThenLogin ==
  \A p, q \in Procs :
    (ApiDone(p, "HandleRegister") /\ api[p].created) =>
      /\ api[p].status = StatusCreated
      /\ (/\ ApiDone(q, "HandleLogin")
          /\ api[q].n > api[p].n
          /\ api[q].username = api[p].username
          /\ api[q].password = api[p].password
          /\ ~api[q].faulted)
         => (/\ api[q].status = StatusOK
             /\ ValidateOutcome(sessions, now, api[q].token) = NoErr)

\* C26: a register whose username or email belongs to a user, when the
\* request starts or when it comes to create the account, is answered 409
\* and creates no user (no store failure in the request).
C26_DuplicateIs409 ==
  \A p \in Procs :
    (/\ ApiDone(p, "HandleRegister")
     /\ api[p].status # StatusBadRequest
     /\ ~api[p].faulted
     /\ (api[p].taken \/ api[p].conflict))
    => (api[p].status = StatusConflict /\ ~api[p].created)

\* An exchange of the server on the given path that has been answered.
Served(p, route) == http[p].route = route /\ http[p].at = "responded"

\* C25: GET /api/profile with a live credential is answered by the profile
\* handler with status 200, and without a live credential it is answered 401
\* and the profile handler is not reached.
C25_ProfileNeedsCredential ==
  \A p \in Procs :
    Served(p, ProfileRoute) =>
      IF http[p].live
        THEN http[p].status = StatusOK /\ http[p].invoked
        ELSE http[p].status = StatusUnauthorized /\ ~http[p].invoked

\* C27: a logout request that carries a bearer credential is answered 200
\* whatever the revocation did: deleted the row, found none, or failed.
C27_LogoutAlways200 ==
  \A p \in Procs :
    (Served(p, LogoutRoute) /\ extractToken(http[p].header) # NoToken) =>
      http[p].status = StatusOK

\* C27 witness: a logout answered 200 although its revocation failed in the
\* store, and one answered 200 for a credential that had no session.
C27_Witness ==
  /\ \E p \in Procs :
       /\ Served(p, LogoutRoute)
       /\ http[p].status = StatusOK
       /\ proc[p].op = "RevokeToken"
       /\ proc[p].err # NoErr
  /\ \E p \in Procs :
       /\ Served(p, LogoutRoute)
       /\ http[p].status = StatusOK
       /\ proc[p].op = "RevokeToken"
       /\ proc[p].err = NoErr
       /\ ~http[p].live

\* A refresh exchange in flight whose credential was not live when the
\* request arrived.
DeadRefresh(p) ==
  /\ http[p].route = RefreshRoute
  /\ http[p].at # "responded"
  /\ extractToken(http[p].header) # NoToken
  /\ ~http[p].live

\* C28: a refresh with a credential that is not live creates no session row,
\* ends with an error of RefreshToken and is answered 401.
C28_DeadRefreshIs401 ==
  [][\A p \in Procs :
       DeadRefresh(p) =>
         /\ proc'[p] # proc[p] => sessions' \subseteq sessions
         /\ http'[p].at = "responded" =>
              /\ http'[p].status = StatusUnauthorized
              /\ proc'[p].op = "RefreshToken"
              /\ proc'[p].err # NoErr
              /\ proc'[p].ret = NoToken]_allVars

\* C28 witness: a refresh answered 401 for a credential that a logout had
\* revoked, with no session row left for it.
C28_Witness ==
  \E p \in Procs :
    /\ Served(p, RefreshRoute)
    /\ http[p].status = StatusUnauthorized
    /\ ~http[p].live
    /\ proc[p].op = "RefreshToken"
    /\ proc[p].tok \in revoked
    /\ RowState(proc[p].tok) = "none"

\* Refreshes answered 401 for an expired and for a never issued credential.
C28_OtherDead ==
  /\ \E p \in Procs :
       /\ Served(p, RefreshRoute) /\ http[p].status = StatusUnauthorized
       /\ proc[p].op = "RefreshToken"
       /\ proc[p].tok \in IssuedTokens \ revoked
       /\ RowState(proc[p].tok) = "expired"
  /\ \E p \in Procs :
       /\ Served(p, RefreshRoute) /\ http[p].status = StatusUnauthorized
       /\ proc[p].op = "RefreshToken"
       /\ proc[p].tok \notin IssuedTokens

\* The requests i..j of client c, in the order they came.
Run(c, i, j) == {k \in DOMAIN outcomes[c] : i <= k /\ k <= j}

\* Requests i..j of client c are more than burst and came within one refill
\* interval.
BurstRun(c, i, j) ==
  /\ i \in DOMAIN outcomes[c]
  /\ j \in DOMAIN outcomes[c]
  /\ j - i + 1 > RateLimitBurst
  /\ outcomes[c][j].at - outcomes[c][i].at < RefillInterval

\* The requests of client c came at or below the steady rate.
Spaced(c) ==
  \A k \in DOMAIN outcomes[c] :
    k > 1 => outcomes[c][k].at - outcomes[c][k - 1].at >= RefillInterval

GetAfterSet(p, q) ==
  /\ sreq'[p].op = "GetSearchResults"
  /\ sreq'[p].n = calls + 1
  /\ sreq'[p].query = q
  /\ sreq'[p].err = NoErr
  /\ lists[q].present
  /\ now < lists[q].expireAt

\* C31: after SetSearchResults(q, no results), GetSearchResults(q) returns a
\* cached outcome with no result strings, which is not the (nil, nil) of a
\* query never set.
C31_EmptyIsCachedAsEmpty ==
  [][\A p \in Procs, q \in Queries :
       (GetAfterSet(p, q) /\ lists[q].results = <<>>) =>
         /\ ~sreq'[p].ret.isNil
         /\ sreq'[p].ret.elems = <<>>]_allVars

\* C40: for a non-empty list of results, GetSearchResults(q) right after
\* SetSearchResults(q, results) returns the same strings in the same order.
C40_SetGetSameOrder ==
  [][\A p \in Procs, q \in Queries :
       (GetAfterSet(p, q) /\ lists[q].results # <<>> /\ lists[q].n = calls) =>
         sreq'[p].ret = Slice(lists[q].results)]_allVars

\* A list of one result comes back as it was set.
SingleResultComesBack ==
  [][\A p \in Procs, q \in Queries :
       (GetAfterSet(p, q) /\ Len(lists[q].results) = 1 /\ lists[q].n = calls) =>
         sreq'[p].ret = Slice(lists[q].results)]_allVars

\* A query never set is a miss: (nil, nil).
NeverSetIsMiss ==
  [][\A p \in Procs, q \in Queries :
       (sreq'[p].op = "GetSearchResults" /\ sreq'[p].n = calls + 1
        /\ sreq'[p].query = q /\ ~lists[q].present /\ sreq'[p].err = NoErr) =>
         sreq'[p].ret = NilSlice]_allVars

\* The credential is malformed, wrongly signed or past the exp claim at time t.
BadCredential(tokenString, t) ==
  \/ tokenString.alg # "HS256"
  \/ tokenString.sig # <<jwtSecret, tokenString.claims>>
  \/ tokenString.claims.ExpiresAt <= t

\* Request p starts ValidateToken in this step.
StartsValidate(p) ==
  /\ proc[p].pc \in {"idle", "done"}
  /\ proc'[p].op = "ValidateToken"
  /\ proc'[p].n = calls + 1

\* C32: a ValidateToken of a malformed, wrongly signed or claim-expired
\* credential returns the parse error in its first step: the session store
\* is not asked (no store error, no row fetched) and no session row changes.
C32_ParseBeforeStore ==
  [][\A p \in Procs :
       (StartsValidate(p) /\ BadCredential(proc'[p].tok, now)) =>
         /\ proc'[p].pc = "done"
         /\ proc'[p].err = ErrParse
         /\ proc'[p].cause = NoErr
         /\ proc'[p].session = NoSession
         /\ sessions' = sessions]_vars

\* C32 witness: ValidateToken returned the parse error for a forged
\* credential, and for an issued credential past its exp claim whose session
\* row is still in the table, untouched.
C32_Witness ==
  /\ \E p \in Procs :
       /\ proc[p].op = "ValidateToken"
       /\ proc[p].err = ErrParse
       /\ proc[p].tok = ForgedToken
  /\ \E p \in Procs :
       /\ proc[p].op = "ValidateToken"
       /\ proc[p].err = ErrParse
       /\ proc[p].tok \in IssuedTokens
       /\ \E s \in sessions :
            /\ s.token_hash = hashToken(proc[p].tok)
            /\ s.last_used_at = s.created_at
            /\ s.expires_at > now

\* A CleanupExpiredSessions whose DELETE ran takes this step.
CleanupRuns ==
  \E p \in Procs :
    /\ proc[p].pc \in {"idle", "done"}
    /\ proc'[p].op = "CleanupExpiredSessions"
    /\ proc'[p].n = calls + 1
    /\ proc'[p].err = NoErr

\* C33: CleanupExpiredSessions deletes exactly the rows whose expires_at has
\* passed, and what ValidateToken returns for any credential, now or at any
\* later time, is the same on the table before and after the cleanup.
C33_CleanupIsHousekeeping ==
  [][CleanupRuns =>
       /\ sessions' = {s \in sessions : s.expires_at > now}
       /\ \A tok \in Presentable, t \in now..MaxTime :
            ValidateOutcome(sessions', t, tok) = ValidateOutcome(sessions, t, tok)]_vars

\* C33 witness: a cleanup removed the expired row of a credential that was
\* never revoked and left a live row in the table.
C33_Witness ==
  /\ \E p \in Procs :
       /\ proc[p].op = "CleanupExpiredSessions"
       /\ proc[p].pc = "done"
       /\ proc[p].err = NoErr
  /\ \E tok \in IssuedTokens \ (revoked \cup revokedAll) :
       RowState(tok) = "none"
  /\ \E tok \in IssuedTokens : RowState(tok) = "live"

\* HandleWebFinger of request p answers a cache hit in this step.
AnswersHit(p) ==
  /\ wreq'[p].op = "HandleWebFinger"
  /\ wreq'[p].xcache = "HIT"
  /\ wreq[p] # wreq'[p]

\* C34: a HandleWebFinger that answers a cache hit returns the cached record
\* in the step of the cache query, having asked the cache only, and leaves
\* the cache keys and table users as they are; a handler built with a cache
\* queries the store only when the cache held no record for the subject or
\* returned an error.
C34_HitSkipsStore ==
  [][\A p \in Procs :
       /\ AnswersHit(p) =>
            /\ wreq'[p].pc = "done"
            /\ wreq'[p].queried = {"cache"}
            /\ ~wreq'[p].wrote
            /\ wreq'[p].body = redis[webfingerKey(wreq'[p].subject)].data
            /\ redis' = redis
            /\ userRows' = userRows
       /\ (wreq'[p].op = "HandleWebFinger" /\ "store" \in wreq'[p].queried
           /\ cfg.cache = "redis") =>
            /\ "cache" \in wreq'[p].queried
            /\ wreq'[p].xcache # "HIT"
            /\ wreq'[p].cerr # NoErr \/ wreq'[p].pre # "held"]_allVars

\* C34 witness: one request was answered from the store after a miss and
\* filled the cache, another was then answered a hit without the store.
C34_Witness ==
  \E p, q \in Procs :
    /\ wreq[p].op = "HandleWebFinger" /\ wreq[p].pc = "done"
    /\ wreq[p].xcache = "MISS" /\ wreq[p].queried = {"cache", "store"} /\ wreq[p].wrote
    /\ wreq[q].op = "HandleWebFinger" /\ wreq[q].pc = "done"
    /\ wreq[q].subject = wreq[p].subject
    /\ wreq[q].xcache = "HIT" /\ wreq[q].queried = {"cache"} /\ wreq[q].n > wreq[p].n

\* C35: a RefreshToken that returns an error has deleted no session row: the
\* old credential, live when the call validated it, is not revoked by the
\* failed call.
C35_FailedRefreshKeepsOld ==
  \A p \in Procs :
    (Done(p, "RefreshToken") /\ ~Ok(p)) =>
      ~(proc[p].revErr = NoErr /\ proc[p].rows > 0)

\* ---------------------------------------------------------------- C36
\* Requests p and q are two RefreshToken calls for the same credential,
\* both past their validation.
SameExchange(p, q) ==
  /\ p # q
  /\ RefreshValidated(p) /\ RefreshValidated(q)
  /\ proc[p].tok = proc[q].tok

\* RefreshToken p has returned a new credential whose session row is live.
ReturnedLive(p) ==
  /\ Done(p, "RefreshToken") /\ Ok(p)
  /\ proc[p].ret # NoToken
  /\ RowState(proc[p].ret) = "live"

\* C36 as stated: of two RefreshToken calls for the same live credential,
\* at most one returns a new live credential.
C36_ExchangedAtMostOnce ==
  \A p, q \in Procs :
    SameExchange(p, q) => ~(ReturnedLive(p) /\ ReturnedLive(q))

\* RefreshToken p has run its revocation and RevokeToken reported that it
\* deleted the old session.
DeletedOld(p) ==
  /\ RefreshValidated(p)
  /\ proc[p].pc \in {"rf_issue", "done"}
  /\ proc[p].revErr = NoErr

\* C36, amended: of two RefreshToken calls for the same live credential, at
\* most one deletes the old session (the other's RevokeToken reports an
\* error, which RefreshToken ignores); both may return a new live credential.
C36_OldSessionDeletedOnce ==
  \A p, q \in Procs :
    SameExchange(p, q) => ~(DeletedOld(p) /\ DeletedOld(q))

\* Both calls returned a new live credential; one deleted the old session
\* and the other was told it was not found.
C36_Witness ==
  \E p, q \in Procs :
    /\ SameExchange(p, q)
    /\ ReturnedLive(p) /\ ReturnedLive(q)
    /\ DeletedOld(p)
    /\ proc[q].revErr = DeleteSessionErr(0)
    /\ proc[p].ret # proc[q].ret

\* ---------------------------------------------------------------- C38
\* C38: the credential RefreshToken returns carries the subject id and the
\* privilege flag of the old credential's claims.
C38_RefreshKeepsSubjectAndPrivilege ==
  \A p \in Procs :
    (Done(p, "RefreshToken") /\ proc[p].ret # NoToken) =>
      /\ proc[p].ret.claims.UserID = proc[p].tok.claims.UserID
      /\ proc[p].ret.claims.IsAdmin = proc[p].tok.claims.IsAdmin

\* A credential without the privilege flag was refreshed, and the new
\* credential is another one for the same subject, still without the flag.
C38_Witness ==
  \E p \in Procs :
    /\ Done(p, "RefreshToken") /\ Ok(p)
    /\ proc[p].ret # NoToken
    /\ proc[p].ret # proc[p].tok
    /\ ~proc[p].tok.claims.IsAdmin
    /\ ~proc[p].ret.claims.IsAdmin
    /\ proc[p].ret.claims.UserID = proc[p].tok.claims.UserID

\* ---------------------------------------------------------------- C39
\* The session rows of a credential.
RowsOf(tokenString) == {s \in sessions : s.token_hash = hashToken(tokenString)}

\* C39 as stated: the expires_at the login and refresh endpoints return is
\* the expires_at of the session row created for the returned credential.
C39_ResponseExpiryIsSessionExpiry ==
  \A p \in Procs :
    /\ (api[p].pc = "done" /\ api[p].op = "HandleLogin" /\ api[p].token # NoToken) =>
         \A s \in RowsOf(api[p].token) : api[p].expires_at = s.expires_at
    /\ (http[p].at = "responded" /\ http[p].route = RefreshRoute
          /\ http[p].status = StatusOK) =>
         \A s \in RowsOf(proc[p].ret) : http[p].expires_at = s.expires_at

\* ---------------------------------------------------------------- C37
\* The login half of C37: a login that found the subject deactivated hands
\* out no credential, and answers 403 unless the lookup itself failed.
LoginRefusedWhenDeactivated ==
  \A p \in Procs :
    (api[p].op = "HandleLogin" /\ api[p].inactive) =>
      /\ api[p].pc = "done"
      /\ api[p].token = NoToken
      /\ ~api[p].faulted => api[p].status = StatusForbidden

\* C37 as stated: once a subject is deactivated, login is refused with 403
\* and a RefreshToken with one of the subject's earlier credentials returns
\* no new credential.
C37_DeactivatedGetsNoCredential ==
  /\ LoginRefusedWhenDeactivated
  /\ \A p \in Procs :
       (Done(p, "RefreshToken") /\ ~proc[p].pre.active) => proc[p].ret = NoToken

====
